---- MODULE Spec2Model ----
(***************************************************************************)
(* Step-generation engine of the graph algorithm visualizer.               *)
(*                                                                         *)
(* Every executor (graph, params) -> AlgorithmStep[] is modelled as a      *)
(* state machine: `alg` is the id of the executor the registry dispatches  *)
(* to, `graph` and `params` are the inputs, `loc` holds the executor's     *)
(* local variables under their source names, `nodeStates`, `edgeStates`    *)
(* and `metrics` are the live maps the executor mutates, and `steps` is    *)
(* the array of snapshots it has pushed so far.  `pc` is the position in   *)
(* the executor's control flow.  One action is one iteration of a loop of  *)
(* the source (or the code before / after the loop).  `algorithmStore` and *)
(* `comparisonStore` are the states of the stores that run the executors   *)
(* and replay their steps; `caller` is the call of an executor in          *)
(* progress; `graphStore` is the state of the store the editor works on:   *)
(* the edited graph and its undo history.                                  *)
(*                                                                         *)
(* Node ids are 1..n in the order of graph.nodes; a node's label is its    *)
(* id.  Edge ids are the positions in graph.edges.  0 stands for           *)
(* undefined / null / a missing parameter.                                 *)
(***************************************************************************)
EXTENDS Integers, Sequences, FiniteSets, TLC

VARIABLES alg, graph, params, pc, loc, nodeStates, edgeStates, metrics, steps,
          algorithmStore, comparisonStore, caller, graphStore

\* what surrounds a running executor: the state of the two zustand stores
\* that call the executors, the call in progress and the state of the store
\* that holds the edited graph and its history.  No executor reads or
\* writes any of it.
env == <<algorithmStore, comparisonStore, caller, graphStore>>

vars == <<alg, graph, params, pc, loc, nodeStates, edgeStates, metrics, steps, env>>

(* ---------------------------- bounds ----------------------------------- *)
MaxNodes == 3
MaxEdges == 3
MaxWeight == 1
MaxPos == 1
MaxSmallNodes == 2
MaxSmallEdges == 2

(* ------------------------- types/index.ts ------------------------------ *)
UNVISITED == "unvisited"
VISITING == "visiting"
VISITED == "visited"
IN_PATH == "in_path"
IN_SOLUTION == "in_solution"
CURRENT == "current"

UNEXAMINED == "unexamined"
EXAMINING == "examining"
REJECTED == "rejected"

\* JavaScript's Infinity: larger than every finite distance of the model.
Infinity == 1000000

\* a || b on numbers: 0 (like undefined and NaN) is falsy.
OrElse(a, b) == IF a = 0 THEN b ELSE a

NodeIds(g) == 1 .. g.n

EdgeIds(g) == 1 .. Len(g.edges)

\* let metrics = { nodesVisited: 0, edgesExamined: 0, operationsCount: 0, comparisons: 0 }
ZeroMetrics == [nodesVisited |-> 0, edgesExamined |-> 0, operationsCount |-> 0, comparisons |-> 0]

\* steps.push({ stepNumber: steps.length + 1, ..., nodeStates: new Map(nodeStates),
\*              edgeStates: new Map(edgeStates), ..., metrics: { ...metrics } })
\* The identity of the executor's own nodeStates map, edgeStates map and
\* metrics object, the ones it keeps writing to.
LiveObject == 0

\* pushing nodeStates, edgeStates or metrics as they are: the step refers to
\* the executor's own object
SameObject(s) == LiveObject

\* new Map(nodeStates), new Map(edgeStates), { ...metrics }: an object that
\* did not exist before, identified by the step it is made for.
NewObject(s) == Len(s) + 1

\* steps.push({ stepNumber: steps.length + 1, ... }).  `objects` records which
\* objects the step's nodeStates, edgeStates and metrics fields refer to; the
\* fields themselves hold the contents at the time of the push.
Emit(s, op, line, desc, ds, ns, es, m) ==
    Append(s, [stepNumber |-> Len(s) + 1,
               description |-> desc,
               pseudocodeLine |-> line,
               nodeStates |-> ns,
               edgeStates |-> es,
               dataStructures |-> ds,
               currentOperation |-> op,
               metrics |-> m,
               objects |-> [nodeStates |-> NewObject(s),
                            edgeStates |-> NewObject(s),
                            metrics |-> NewObject(s)]])

(* ----------------------- core/graph/graphUtils.ts ---------------------- *)
\* graph.edges.find(...): the first matching edge, 0 when there is none.
getEdgeBetween(g, source, target) ==
    LET match == {i \in EdgeIds(g) :
                    IF g.directed
                    THEN g.edges[i].source = source /\ g.edges[i].target = target
                    ELSE \/ (g.edges[i].source = source /\ g.edges[i].target = target)
                         \/ (g.edges[i].source = target /\ g.edges[i].target = source)}
    IN IF match = {} THEN 0 ELSE CHOOSE i \in match : \A j \in match : i <= j

getNode(g, nodeId) == IF nodeId \in NodeIds(g) THEN nodeId ELSE 0

RECURSIVE AdjUpTo(_, _)
AdjUpTo(g, k) ==
    IF k = 0 THEN [v \in NodeIds(g) |-> <<>>]
    ELSE LET a == AdjUpTo(g, k - 1)
             e == g.edges[k]
             a1 == [a EXCEPT ![e.source] = Append(@, [nodeId |-> e.target, weight |-> e.weight])]
         IN IF ~g.directed
            THEN [a1 EXCEPT ![e.target] = Append(@, [nodeId |-> e.source, weight |-> e.weight])]
            ELSE a1

\* the list without the reverse entries of an undirected graph's edges
toOneWayAdjacencyList(g) == AdjUpTo([g EXCEPT !.directed = TRUE], Len(g.edges))

toAdjacencyList(g) == AdjUpTo(g, Len(g.edges))

(* ------------------- the inputs: graphs and params --------------------- *)
\* Edges between distinct existing nodes (the canvas refuses self-loops);
\* parallel edges are kept: reverseEdgeDirection and setGraphDirected make them.
EdgeChoices(n, W) ==
    {[source |-> s, target |-> t, weight |-> w] : s \in 1 .. n, t \in 1 .. n, w \in W} \
    {[source |-> s, target |-> s, weight |-> w] : s \in 1 .. n, w \in W}

\* the edges written with source < target
OrientedEdgeChoices(n, W) == {e \in EdgeChoices(n, W) : e.source < e.target}

\* graph is a graph of up to MaxNodes nodes and MaxEdges edges, with weights
\* from W (every edge written with source < target if oriented) and
\* directedness from D.  x is the nodes' horizontal position on the canvas,
\* drawn from X; every node has y = 0.
GraphFrom(W, oriented, D, X) ==
    \E n \in 1 .. MaxNodes : \E m \in 0 .. MaxEdges :
        \E es \in [1 .. m -> IF oriented THEN OrientedEdgeChoices(n, W) ELSE EdgeChoices(n, W)] :
            \E d \in D : \E p \in [1 .. n -> X] :
                graph = [n |-> n, edges |-> es, directed |-> d, x |-> p]

\* a directed or undirected graph with weights from W; where the positions
\* do not matter every node is at 0
SomeGraph(W) == GraphFrom(W, FALSE, BOOLEAN, {0})

\* an executor called on its own, outside the stores
Standalone ==
    /\ algorithmStore = <<>>
    /\ comparisonStore = <<>>
    /\ caller = <<>>
    /\ graphStore = <<>>

\* before the executor has run
Idle ==
    /\ Standalone
    /\ pc = "start"
    /\ loc = <<>>
    /\ nodeStates = <<>>
    /\ edgeStates = <<>>
    /\ metrics = ZeroMetrics
    /\ steps = <<>>

(* -------------------- shortestPath/dijkstra.ts ------------------------- *)
\* a sort that puts the last entry before the entries of equal priority
RECURSIVE SortNewestFirst(_)
SortNewestFirst(items) ==
    IF Len(items) <= 1 THEN items
    ELSE LET init == SortNewestFirst(SubSeq(items, 1, Len(items) - 1))
             x == items[Len(items)]
             k == Cardinality({j \in 1 .. Len(init) : init[j].priority < x.priority})
         IN SubSeq(init, 1, k) \o <<x>> \o SubSeq(init, k + 1, Len(init))

\* Array.prototype.sort((a, b) => a.priority - b.priority): a stable sort.
RECURSIVE SortByPriority(_)
SortByPriority(items) ==
    IF Len(items) <= 1 THEN items
    ELSE LET init == SortByPriority(SubSeq(items, 1, Len(items) - 1))
             x == items[Len(items)]
             k == Cardinality({j \in 1 .. Len(init) : init[j].priority <= x.priority})
         IN SubSeq(init, 1, k) \o <<x>> \o SubSeq(init, k + 1, Len(init))

PQEnqueue(items, value, priority) ==
    SortByPriority(Append(items, [priority |-> priority, value |-> value]))

\* while (curr) { path.unshift(curr); curr = parent.get(curr) || null; }
RECURSIVE PathFrom(_, _)
PathFrom(parent, curr) ==
    IF curr = 0 THEN <<>> ELSE Append(PathFrom(parent, parent[curr]), curr)

\* for (i ...) { nodeStates.set(path[i], IN_SOLUTION) }
MarkPathNodes(ns, path) ==
    [v \in DOMAIN ns |-> IF \E i \in 1 .. Len(path) : path[i] = v THEN IN_SOLUTION ELSE ns[v]]

\* if (i > 0) { edge = getEdgeBetween(graph, path[i-1], path[i]); if (edge) edgeStates.set(...) }
MarkPathEdges(g, es, path) ==
    [e \in DOMAIN es |->
        IF \E i \in 2 .. Len(path) : getEdgeBetween(g, path[i - 1], path[i]) = e
        THEN IN_SOLUTION ELSE es[e]]

DijkstraStart ==
    /\ alg = "dijkstra"
    /\ pc = "start"
    /\ IF params.startNodeId = 0 \/ params.startNodeId \notin NodeIds(graph)
       THEN /\ pc' = "done"
            /\ UNCHANGED <<loc, nodeStates, edgeStates, metrics, steps>>
       ELSE LET s == params.startNodeId
                dist == [v \in NodeIds(graph) |-> IF v = s THEN 0 ELSE Infinity]
                pq == PQEnqueue(<<>>, s, 0)
                ns == [[v \in NodeIds(graph) |-> UNVISITED] EXCEPT ![s] = VISITING]
                es == [e \in EdgeIds(graph) |-> UNEXAMINED]
                m == [ZeroMetrics EXCEPT !.operationsCount = 1]
            IN /\ loc' = [adjList |-> toAdjacencyList(graph),
                          dist |-> dist,
                          parent |-> [v \in NodeIds(graph) |-> 0],
                          visited |-> {},
                          pq |-> pq,
                          currentId |-> 0,
                          i |-> 0]
               /\ nodeStates' = ns
               /\ edgeStates' = es
               /\ metrics' = m
               /\ steps' = Emit(steps, <<"Initialize">>, 1, <<"Initialize", s>>,
                                [distances |-> dist, priorityQueue |-> pq], ns, es, m)
               /\ pc' = "loop"
    /\ UNCHANGED <<env, alg, graph, params>>

\* a loop that takes no notice of the target
DijkstraIgnoresTarget(endNodeId, currentId) == FALSE

\* if (endNodeId && currentId === endNodeId)
DijkstraAtTarget(endNodeId, currentId) == endNodeId # 0 /\ currentId = endNodeId

\* one iteration of while (!pq.isEmpty()) up to the neighbor loop
DijkstraDequeue ==
    /\ alg = "dijkstra"
    /\ pc = "loop"
    /\ loc.pq # <<>>
    /\ LET current == Head(loc.pq)
           pq == Tail(loc.pq)
           currentId == current.value
           currentDist == current.priority
           m1 == [metrics EXCEPT !.operationsCount = @ + 1, !.comparisons = @ + 1]
       IN IF currentDist > OrElse(loc.dist[currentId], Infinity) \/ currentId \in loc.visited
          THEN /\ loc' = [loc EXCEPT !.pq = pq]
               /\ metrics' = m1
               /\ pc' = "loop"
               /\ UNCHANGED <<nodeStates, edgeStates, steps>>
          ELSE LET m2 == [m1 EXCEPT !.nodesVisited = @ + 1]
                   ns1 == [nodeStates EXCEPT ![currentId] = CURRENT]
                   s1 == Emit(steps, <<"Process", currentId>>, 6,
                              <<"Extract minimum", currentId, currentDist>>,
                              [distances |-> loc.dist, priorityQueue |-> pq],
                              ns1, edgeStates, m2)
               IN IF DijkstraAtTarget(params.endNodeId, currentId)
                  THEN LET path == PathFrom(loc.parent, currentId)
                           ns2 == MarkPathNodes([ns1 EXCEPT ![currentId] = IN_SOLUTION], path)
                           es2 == MarkPathEdges(graph, edgeStates, path)
                       IN /\ loc' = [loc EXCEPT !.pq = pq, !.visited = @ \cup {currentId},
                                                !.currentId = currentId]
                          /\ metrics' = m2
                          /\ nodeStates' = ns2
                          /\ edgeStates' = es2
                          /\ steps' = Emit(s1, <<"Path Found">>, 7,
                                           <<"Target reached", currentId, currentDist, path>>,
                                           [distances |-> loc.dist, path |-> path],
                                           ns2, es2, m2)
                          /\ pc' = "done"
                  ELSE /\ loc' = [loc EXCEPT !.pq = pq, !.visited = @ \cup {currentId},
                                             !.currentId = currentId, !.i = 1]
                       /\ metrics' = m2
                       /\ nodeStates' = ns1
                       /\ steps' = s1
                       /\ pc' = "neighbors"
                       /\ UNCHANGED edgeStates
    /\ UNCHANGED <<env, alg, graph, params>>

\* Does the relaxation test of line 225 succeed?
DijkstraImproves(alt, currentNeighborDist) == alt < currentNeighborDist

\* const currentNeighborDist = dist.get(neighborId) || Infinity
DijkstraNeighborDist(d) == OrElse(d, Infinity)

\* one iteration of for (const { nodeId: neighborId, weight } of neighbors)
DijkstraRelax ==
    /\ alg = "dijkstra"
    /\ pc = "neighbors"
    /\ loc.i <= Len(loc.adjList[loc.currentId])
    /\ LET currentId == loc.currentId
           neighborId == loc.adjList[currentId][loc.i].nodeId
           weight == loc.adjList[currentId][loc.i].weight
       IN IF neighborId \in loc.visited
          THEN /\ loc' = [loc EXCEPT !.i = @ + 1]
               /\ UNCHANGED <<nodeStates, edgeStates, metrics, steps>>
          ELSE LET edge == getEdgeBetween(graph, currentId, neighborId)
                   m1 == [metrics EXCEPT !.edgesExamined = @ + 1, !.comparisons = @ + 1,
                                         !.operationsCount = @ + 1]
                   es1 == IF edge # 0 THEN [edgeStates EXCEPT ![edge] = EXAMINING] ELSE edgeStates
                   alt == OrElse(loc.dist[currentId], 0) + weight
                   currentNeighborDist == DijkstraNeighborDist(loc.dist[neighborId])
                   s1 == Emit(steps, <<"Relax edge to", neighborId>>, 10,
                              <<"Check edge", currentId, neighborId, weight, alt, currentNeighborDist>>,
                              [distances |-> loc.dist, priorityQueue |-> loc.pq],
                              nodeStates, es1, m1)
               IN IF DijkstraImproves(alt, currentNeighborDist)
                  THEN LET dist == [loc.dist EXCEPT ![neighborId] = alt]
                           pq == PQEnqueue(loc.pq, neighborId, alt)
                           ns1 == IF nodeStates[neighborId] # VISITED
                                  THEN [nodeStates EXCEPT ![neighborId] = VISITING]
                                  ELSE nodeStates
                       IN /\ loc' = [loc EXCEPT !.dist = dist, !.parent[neighborId] = currentId,
                                                !.pq = pq, !.i = @ + 1]
                          /\ nodeStates' = ns1
                          /\ edgeStates' = es1
                          /\ metrics' = m1
                          /\ steps' = Emit(s1, <<"Update", neighborId>>, 12,
                                           <<"Update distance", neighborId, alt, currentId>>,
                                           [distances |-> dist, priorityQueue |-> pq],
                                           ns1, es1, m1)
                  ELSE /\ loc' = [loc EXCEPT !.i = @ + 1]
                       /\ edgeStates' = IF edge # 0 THEN [es1 EXCEPT ![edge] = REJECTED] ELSE es1
                       /\ metrics' = m1
                       /\ steps' = s1
                       /\ UNCHANGED nodeStates
    /\ UNCHANGED <<env, alg, graph, params, pc>>

\* after the neighbor loop: nodeStates.set(currentId, NodeState.VISITED)
DijkstraNodeDone ==
    /\ alg = "dijkstra"
    /\ pc = "neighbors"
    /\ loc.i > Len(loc.adjList[loc.currentId])
    /\ nodeStates' = [nodeStates EXCEPT ![loc.currentId] = VISITED]
    /\ pc' = "loop"
    /\ UNCHANGED <<env, alg, graph, params, loc, edgeStates, metrics, steps>>

\* the code after the while loop
DijkstraFinish ==
    /\ alg = "dijkstra"
    /\ pc = "loop"
    /\ loc.pq = <<>>
    /\ IF params.endNodeId = 0
       THEN LET ns == [v \in NodeIds(graph) |->
                         IF loc.dist[v] # Infinity THEN IN_SOLUTION ELSE nodeStates[v]]
            IN /\ nodeStates' = ns
               /\ steps' = Emit(steps, <<"Complete">>, 14, <<"Dijkstra complete", params.startNodeId>>,
                                [distances |-> loc.dist], ns, edgeStates, metrics)
       ELSE /\ steps' = Emit(steps, <<"No Path">>, 5,
                             <<"No path found", params.startNodeId, getNode(graph, params.endNodeId)>>,
                             [distances |-> loc.dist], nodeStates, edgeStates, metrics)
            /\ UNCHANGED nodeStates
    /\ pc' = "done"
    /\ UNCHANGED <<env, alg, graph, params, loc, edgeStates, metrics>>

InitDijkstra ==
    /\ alg = "dijkstra"
    /\ SomeGraph(0 .. MaxWeight)
    /\ params \in [startNodeId : {0, 1, graph.n + 1}, endNodeId : 0 .. graph.n + 1]
    /\ Idle

NextDijkstra ==
    \/ DijkstraStart
    \/ DijkstraDequeue
    \/ DijkstraRelax
    \/ DijkstraNodeDone
    \/ DijkstraFinish

SpecDijkstra == InitDijkstra /\ [][NextDijkstra]_vars

(* --------------------- other/cycleDetection.ts ------------------------- *)
WHITE == "white"
GRAY == "gray"
BLACK == "black"

\* the test that takes every neighbor already coloured, finished ones too, for a back edge
CycleIsVisited(neighborColor) == neighborColor # WHITE

\* Line 115: is the neighbor on the current recursion path (a back edge)?
CycleIsBackEdge(neighborColor) == neighborColor = GRAY

\* The entry of dfs(nodeId) (lines 75-92): color GRAY, the 'Visit' step, and a
\* new frame on the call stack whose neighbor loop starts at the first neighbor.
CycleEnter(nodeId, l, ns, es, m, s) ==
    LET color == [l.color EXCEPT ![nodeId] = GRAY]
        ns1 == [ns EXCEPT ![nodeId] = VISITING]
        m1 == [m EXCEPT !.nodesVisited = @ + 1, !.operationsCount = @ + 1]
    IN [loc |-> [l EXCEPT !.color = color,
                          !.stack = Append(@, [nodeId |-> nodeId, i |-> 1])],
        nodeStates |-> ns1,
        metrics |-> m1,
        steps |-> Emit(s, <<"Visit", nodeId>>, 9, <<"Visit", nodeId>>,
                       [colors |-> color], ns1, es, m1)]

\* callers that take no notice of what dfs returned
CycleIgnoreResult(result) == "dfs"

\* if (dfs(neighborId)) return true, in every active call, and
\* if (dfs(node.id)) break: where control goes once dfs has returned result
CycleAfterDfs(result) == IF result THEN "final" ELSE "dfs"

CycleStart ==
    /\ alg = "cycleDetection"
    /\ pc = "start"
    /\ LET ns == [v \in NodeIds(graph) |-> UNVISITED]
           es == [e \in EdgeIds(graph) |-> UNEXAMINED]
           color == [v \in NodeIds(graph) |-> WHITE]
       IN /\ loc' = [adjList |-> toAdjacencyList(graph),
                     color |-> color,
                     cycleFound |-> FALSE,
                     cycleEdge |-> <<>>,
                     stack |-> <<>>,
                     root |-> 1]
          /\ nodeStates' = ns
          /\ edgeStates' = es
          /\ steps' = Emit(steps, <<"Initialize">>, 1, <<"Initialize">>,
                           [colors |-> color], ns, es, metrics)
    /\ pc' = "outer"
    /\ UNCHANGED <<env, alg, graph, params, metrics>>

\* one iteration of for (const node of graph.nodes), up to the call of dfs
CycleOuter ==
    /\ alg = "cycleDetection"
    /\ pc = "outer"
    /\ loc.root <= graph.n
    /\ LET node == loc.root
       IN IF loc.color[node] = WHITE
          THEN LET s1 == Emit(steps, <<"Start from", node>>, 3, <<"Start DFS", node>>,
                              [colors |-> loc.color], nodeStates, edgeStates, metrics)
                   r == CycleEnter(node, loc, nodeStates, edgeStates, metrics, s1)
               IN /\ loc' = r.loc
                  /\ nodeStates' = r.nodeStates
                  /\ metrics' = r.metrics
                  /\ steps' = r.steps
                  /\ pc' = "dfs"
          ELSE /\ loc' = [loc EXCEPT !.root = @ + 1]
               /\ UNCHANGED <<pc, nodeStates, metrics, steps>>
    /\ UNCHANGED <<env, alg, graph, params, edgeStates>>

\* one iteration of for (const { nodeId: neighborId } of neighbors) in the
\* innermost active call of dfs
CycleNeighbor ==
    /\ alg = "cycleDetection"
    /\ pc = "dfs"
    /\ LET top == loc.stack[Len(loc.stack)]
           nodeId == top.nodeId
       IN /\ top.i <= Len(loc.adjList[nodeId])
          /\ LET neighborId == loc.adjList[nodeId][top.i].nodeId
                 edge == getEdgeBetween(graph, nodeId, neighborId)
                 m1 == [metrics EXCEPT !.edgesExamined = @ + 1, !.comparisons = @ + 1]
                 es1 == IF edge # 0 THEN [edgeStates EXCEPT ![edge] = EXAMINING] ELSE edgeStates
                 neighborColor == loc.color[neighborId]
                 s1 == Emit(steps, <<"Check", neighborId>>, 10, <<"Check neighbor", neighborId, neighborColor>>,
                            [colors |-> loc.color], nodeStates, es1, m1)
                 l1 == [loc EXCEPT !.stack[Len(loc.stack)].i = @ + 1]
             IN IF CycleIsBackEdge(neighborColor)
                THEN LET es2 == IF edge # 0 THEN [es1 EXCEPT ![edge] = IN_SOLUTION] ELSE es1
                         ns2 == [nodeStates EXCEPT ![neighborId] = IN_SOLUTION]
                     IN /\ loc' = [l1 EXCEPT !.cycleFound = TRUE,
                                             !.cycleEdge = <<nodeId, neighborId>>]
                        /\ edgeStates' = es2
                        /\ nodeStates' = ns2
                        /\ metrics' = m1
                        /\ steps' = Emit(s1, <<"Cycle Found">>, 11, <<"CYCLE DETECTED", nodeId, neighborId>>,
                                         [cycleEdge |-> <<nodeId, neighborId>>], ns2, es2, m1)
                        \* return true, propagated by every caller; the outer loop breaks
                        /\ pc' = CycleAfterDfs(TRUE)
                ELSE IF neighborColor = WHITE
                THEN LET es2 == IF edge # 0 THEN [es1 EXCEPT ![edge] = IN_SOLUTION] ELSE es1
                         r == CycleEnter(neighborId, l1, nodeStates, es2, m1, s1)
                     IN /\ loc' = r.loc
                        /\ edgeStates' = es2
                        /\ nodeStates' = r.nodeStates
                        /\ metrics' = r.metrics
                        /\ steps' = r.steps
                        /\ pc' = "dfs"
                ELSE /\ loc' = l1
                     /\ edgeStates' = IF edge # 0 THEN [es1 EXCEPT ![edge] = REJECTED] ELSE es1
                     /\ metrics' = m1
                     /\ steps' = s1
                     /\ UNCHANGED <<pc, nodeStates>>
    /\ UNCHANGED <<env, alg, graph, params>>

\* the end of dfs(nodeId) (lines 147-161): color BLACK, the 'Finish' step,
\* return false to the caller
CycleReturn ==
    /\ alg = "cycleDetection"
    /\ pc = "dfs"
    /\ LET top == loc.stack[Len(loc.stack)]
           nodeId == top.nodeId
       IN /\ top.i > Len(loc.adjList[nodeId])
          /\ LET color == [loc.color EXCEPT ![nodeId] = BLACK]
                 ns1 == [nodeStates EXCEPT ![nodeId] = VISITED]
                 stack == SubSeq(loc.stack, 1, Len(loc.stack) - 1)
             IN /\ nodeStates' = ns1
                /\ steps' = Emit(steps, <<"Finish", nodeId>>, 13, <<"Finish", nodeId>>,
                                 [colors |-> color], ns1, edgeStates, metrics)
                /\ IF stack = <<>>
                   THEN /\ loc' = [loc EXCEPT !.color = color, !.stack = stack, !.root = @ + 1]
                        /\ pc' = "outer"
                   ELSE /\ loc' = [loc EXCEPT !.color = color, !.stack = stack]
                        /\ pc' = "dfs"
    /\ UNCHANGED <<env, alg, graph, params, edgeStates, metrics>>

\* the code after the outer loop (lines 183-210)
CycleFinish ==
    /\ alg = "cycleDetection"
    /\ \/ pc = "final"
       \/ pc = "outer" /\ loc.root > graph.n
    /\ IF loc.cycleFound
       THEN /\ steps' = Emit(steps, <<"Complete - Cycle Found">>, 5,
                             <<"CYCLE FOUND", loc.cycleEdge[1], loc.cycleEdge[2]>>,
                             [hasCycle |-> TRUE], nodeStates, edgeStates, metrics)
            /\ UNCHANGED nodeStates
       ELSE LET ns == [v \in NodeIds(graph) |-> IN_SOLUTION]
            IN /\ nodeStates' = ns
               /\ steps' = Emit(steps, <<"Complete - No Cycle">>, 6, <<"NO CYCLE">>,
                                [hasCycle |-> FALSE], ns, edgeStates, metrics)
    /\ pc' = "done"
    /\ UNCHANGED <<env, alg, graph, params, loc, edgeStates, metrics>>

\* graphs of an unweighted editor session: setGraphWeighted(false) makes every weight 1
InitCycle ==
    /\ alg = "cycleDetection"
    /\ SomeGraph({1})
    /\ params = [startNodeId |-> 0, endNodeId |-> 0]
    /\ Idle

NextCycle ==
    \/ CycleStart
    \/ CycleOuter
    \/ CycleNeighbor
    \/ CycleReturn
    \/ CycleFinish

SpecCycle == InitCycle /\ [][NextCycle]_vars

(* ------------------------ traversal/bfs.ts ----------------------------- *)
\* Set.has on a Set kept as the sequence of its elements in insertion order
Has(seq, x) == \E k \in 1 .. Len(seq) : seq[k] = x

\* a final pass that sets every visited node back to unvisited
MarkUnvisited(ns, visited) ==
    [v \in DOMAIN ns |-> IF Has(visited, v) THEN UNVISITED ELSE ns[v]]

\* visited.forEach(id => nodeStates.set(id, NodeState.IN_SOLUTION))
MarkVisited(ns, visited) ==
    [v \in DOMAIN ns |-> IF Has(visited, v) THEN IN_SOLUTION ELSE ns[v]]

\* a queue served from its back
BFSTakeLast(queue) == [value |-> queue[Len(queue)], queue |-> SubSeq(queue, 1, Len(queue) - 1)]

\* queue.shift(): the value taken and the queue left
BFSShift(queue) == [value |-> Head(queue), queue |-> Tail(queue)]

BFSStart ==
    /\ alg = "bfs"
    /\ pc = "start"
    /\ IF params.startNodeId = 0 \/ params.startNodeId \notin NodeIds(graph)
       THEN /\ pc' = "done"
            /\ UNCHANGED <<loc, nodeStates, edgeStates, metrics, steps>>
       ELSE LET s == params.startNodeId
                ns == [[v \in NodeIds(graph) |-> UNVISITED] EXCEPT ![s] = VISITING]
                es == [e \in EdgeIds(graph) |-> UNEXAMINED]
                m == [ZeroMetrics EXCEPT !.nodesVisited = 1, !.operationsCount = 1]
            IN /\ loc' = [adjList |-> toAdjacencyList(graph),
                          visited |-> <<s>>,
                          queue |-> <<s>>,
                          currentId |-> 0,
                          i |-> 0]
               /\ nodeStates' = ns
               /\ edgeStates' = es
               /\ metrics' = m
               /\ steps' = Emit(steps, <<"Initialize">>, 3, <<"Start BFS", s>>,
                                [queue |-> <<s>>, visited |-> <<s>>], ns, es, m)
               /\ pc' = "loop"
    /\ UNCHANGED <<env, alg, graph, params>>

\* one iteration of while (queue.length > 0) up to the neighbor loop
BFSDequeue ==
    /\ alg = "bfs"
    /\ pc = "loop"
    /\ loc.queue # <<>>
    /\ LET currentId == BFSShift(loc.queue).value
           queue == BFSShift(loc.queue).queue
           ns1 == [nodeStates EXCEPT ![currentId] = CURRENT]
           m1 == [metrics EXCEPT !.operationsCount = @ + 1]
       IN /\ loc' = [loc EXCEPT !.queue = queue, !.currentId = currentId, !.i = 1]
          /\ nodeStates' = ns1
          /\ metrics' = m1
          /\ steps' = Emit(steps, <<"Dequeue", currentId>>, 5, <<"Dequeue node", currentId>>,
                           [queue |-> queue, visited |-> loc.visited], ns1, edgeStates, m1)
    /\ pc' = "neighbors"
    /\ UNCHANGED <<env, alg, graph, params, edgeStates>>

\* one iteration of for (const { nodeId: neighborId } of neighbors)
BFSNeighbor ==
    /\ alg = "bfs"
    /\ pc = "neighbors"
    /\ loc.i <= Len(loc.adjList[loc.currentId])
    /\ LET currentId == loc.currentId
           neighborId == loc.adjList[currentId][loc.i].nodeId
           edge == getEdgeBetween(graph, currentId, neighborId)
           m1 == [metrics EXCEPT !.edgesExamined = @ + 1, !.comparisons = @ + 1,
                                 !.operationsCount = @ + 1]
           es1 == IF edge # 0 THEN [edgeStates EXCEPT ![edge] = EXAMINING] ELSE edgeStates
           s1 == Emit(steps, <<"Check neighbor", neighborId>>, 7, <<"Examine edge", currentId, neighborId>>,
                      [queue |-> loc.queue, visited |-> loc.visited], nodeStates, es1, m1)
       IN IF ~Has(loc.visited, neighborId)
          THEN LET visited == Append(loc.visited, neighborId)
                   queue == Append(loc.queue, neighborId)
                   ns1 == [nodeStates EXCEPT ![neighborId] = VISITING]
                   m2 == [m1 EXCEPT !.nodesVisited = @ + 1]
                   es2 == IF edge # 0 THEN [es1 EXCEPT ![edge] = IN_SOLUTION] ELSE es1
               IN /\ loc' = [loc EXCEPT !.visited = visited, !.queue = queue, !.i = @ + 1]
                  /\ nodeStates' = ns1
                  /\ edgeStates' = es2
                  /\ metrics' = m2
                  /\ steps' = Emit(s1, <<"Enqueue", neighborId>>, 9, <<"Node not visited", neighborId>>,
                                   [queue |-> queue, visited |-> visited], ns1, es2, m2)
          ELSE /\ loc' = [loc EXCEPT !.i = @ + 1]
               /\ edgeStates' = IF edge # 0 /\ es1[edge] # IN_SOLUTION
                                THEN [es1 EXCEPT ![edge] = REJECTED] ELSE es1
               /\ metrics' = m1
               /\ steps' = s1
               /\ UNCHANGED nodeStates
    /\ UNCHANGED <<env, alg, graph, params, pc>>

\* after the neighbor loop (lines 142-153)
BFSNodeDone ==
    /\ alg = "bfs"
    /\ pc = "neighbors"
    /\ loc.i > Len(loc.adjList[loc.currentId])
    /\ LET ns1 == [nodeStates EXCEPT ![loc.currentId] = VISITED]
       IN /\ nodeStates' = ns1
          /\ steps' = Emit(steps, <<"Complete", loc.currentId>>, 6, <<"Finished processing", loc.currentId>>,
                           [queue |-> loc.queue, visited |-> loc.visited], ns1, edgeStates, metrics)
    /\ pc' = "loop"
    /\ UNCHANGED <<env, alg, graph, params, loc, edgeStates, metrics>>

\* the code after the while loop (lines 156-172)
BFSFinish ==
    /\ alg = "bfs"
    /\ pc = "loop"
    /\ loc.queue = <<>>
    /\ LET ns == MarkVisited(nodeStates, loc.visited)
       IN /\ nodeStates' = ns
          /\ steps' = Emit(steps, <<"Complete">>, 10, <<"BFS complete", Len(loc.visited)>>,
                           [queue |-> <<>>, visited |-> loc.visited], ns, edgeStates, metrics)
    /\ pc' = "done"
    /\ UNCHANGED <<env, alg, graph, params, loc, edgeStates, metrics>>

\* no start node, the first node, or an id that is no node of the graph
StartParams == [startNodeId : {0, 1, graph.n + 1}, endNodeId : {0}]

InitBFS ==
    /\ alg = "bfs"
    /\ SomeGraph({1})
    /\ params \in StartParams
    /\ Idle

NextBFS ==
    \/ BFSStart
    \/ BFSDequeue
    \/ BFSNeighbor
    \/ BFSNodeDone
    \/ BFSFinish

SpecBFS == InitBFS /\ [][NextBFS]_vars

(* ------------------------ traversal/dfs.ts ----------------------------- *)
\* [...stack].reverse(): the stack as displayed, top first
Reverse(seq) == [k \in 1 .. Len(seq) |-> seq[Len(seq) + 1 - k]]

\* a loop that takes the neighbors first to last
DFSNeighborInForwardOrder(neighbors, i) == neighbors[Len(neighbors) + 1 - i]

\* neighbors[i] of the loop that runs i from neighbors.length - 1 down to 0
DFSNeighborAt(neighbors, i) == neighbors[i]

DFSStart ==
    /\ alg = "dfs"
    /\ pc = "start"
    /\ IF params.startNodeId = 0 \/ params.startNodeId \notin NodeIds(graph)
       THEN /\ pc' = "done"
            /\ UNCHANGED <<loc, nodeStates, edgeStates, metrics, steps>>
       ELSE LET s == params.startNodeId
                ns == [[v \in NodeIds(graph) |-> UNVISITED] EXCEPT ![s] = VISITING]
                es == [e \in EdgeIds(graph) |-> UNEXAMINED]
                m == [ZeroMetrics EXCEPT !.operationsCount = 1]
            IN /\ loc' = [adjList |-> toAdjacencyList(graph),
                          visited |-> <<>>,
                          stack |-> <<s>>,
                          currentId |-> 0,
                          i |-> 0]
               /\ nodeStates' = ns
               /\ edgeStates' = es
               /\ metrics' = m
               /\ steps' = Emit(steps, <<"Initialize">>, 2, <<"Start DFS", s>>,
                                [stack |-> <<s>>, visited |-> <<>>], ns, es, m)
               /\ pc' = "loop"
    /\ UNCHANGED <<env, alg, graph, params>>

\* one iteration of while (stack.length > 0) up to the neighbor loop
DFSPop ==
    /\ alg = "dfs"
    /\ pc = "loop"
    /\ loc.stack # <<>>
    /\ LET currentId == loc.stack[Len(loc.stack)]
           stack == SubSeq(loc.stack, 1, Len(loc.stack) - 1)
           m1 == [metrics EXCEPT !.operationsCount = @ + 1, !.comparisons = @ + 1]
       IN IF Has(loc.visited, currentId)
          THEN /\ loc' = [loc EXCEPT !.stack = stack]
               /\ metrics' = m1
               /\ steps' = Emit(steps, <<"Skip", currentId>>, 5, <<"already visited", currentId>>,
                                [stack |-> Reverse(stack), visited |-> loc.visited],
                                nodeStates, edgeStates, m1)
               /\ UNCHANGED <<pc, nodeStates>>
          ELSE LET visited == Append(loc.visited, currentId)
                   m2 == [m1 EXCEPT !.nodesVisited = @ + 1]
                   ns1 == [nodeStates EXCEPT ![currentId] = CURRENT]
               IN /\ loc' = [loc EXCEPT !.stack = stack, !.visited = visited,
                                        !.currentId = currentId,
                                        !.i = Len(loc.adjList[currentId])]
                  /\ metrics' = m2
                  /\ nodeStates' = ns1
                  /\ steps' = Emit(steps, <<"Visit", currentId>>, 6, <<"Pop node", currentId>>,
                                   [stack |-> Reverse(stack), visited |-> visited],
                                   ns1, edgeStates, m2)
                  /\ pc' = "neighbors"
    /\ UNCHANGED <<env, alg, graph, params, edgeStates>>

\* one iteration of for (let i = neighbors.length - 1; i >= 0; i--)
DFSNeighbor ==
    /\ alg = "dfs"
    /\ pc = "neighbors"
    /\ loc.i >= 1
    /\ LET currentId == loc.currentId
           neighborId == DFSNeighborAt(loc.adjList[currentId], loc.i).nodeId
           edge == getEdgeBetween(graph, currentId, neighborId)
           m1 == [metrics EXCEPT !.edgesExamined = @ + 1, !.operationsCount = @ + 1]
           unseen == ~Has(loc.visited, neighborId)
           es1 == IF edge # 0 /\ unseen THEN [edgeStates EXCEPT ![edge] = EXAMINING] ELSE edgeStates
       IN IF unseen
          THEN LET stack == Append(loc.stack, neighborId)
                   ns1 == IF nodeStates[neighborId] = UNVISITED
                          THEN [nodeStates EXCEPT ![neighborId] = VISITING] ELSE nodeStates
                   es2 == IF edge # 0 THEN [es1 EXCEPT ![edge] = IN_SOLUTION] ELSE es1
               IN /\ loc' = [loc EXCEPT !.stack = stack, !.i = @ - 1]
                  /\ nodeStates' = ns1
                  /\ edgeStates' = es2
                  /\ metrics' = m1
                  /\ steps' = Emit(steps, <<"Push", neighborId>>, 9, <<"Push neighbor", neighborId>>,
                                   [stack |-> Reverse(stack), visited |-> loc.visited],
                                   ns1, es2, m1)
          ELSE /\ loc' = [loc EXCEPT !.i = @ - 1]
               /\ edgeStates' = IF edge # 0 /\ es1[edge] # IN_SOLUTION
                                THEN [es1 EXCEPT ![edge] = REJECTED] ELSE es1
               /\ metrics' = m1
               /\ UNCHANGED <<nodeStates, steps>>
    /\ UNCHANGED <<env, alg, graph, params, pc>>

\* after the neighbor loop: nodeStates.set(currentId, NodeState.VISITED)
DFSNodeDone ==
    /\ alg = "dfs"
    /\ pc = "neighbors"
    /\ loc.i < 1
    /\ nodeStates' = [nodeStates EXCEPT ![loc.currentId] = VISITED]
    /\ pc' = "loop"
    /\ UNCHANGED <<env, alg, graph, params, loc, edgeStates, metrics, steps>>

\* the code after the while loop (lines 151-167)
DFSFinish ==
    /\ alg = "dfs"
    /\ pc = "loop"
    /\ loc.stack = <<>>
    /\ LET ns == MarkVisited(nodeStates, loc.visited)
       IN /\ nodeStates' = ns
          /\ steps' = Emit(steps, <<"Complete">>, 9, <<"DFS complete", Len(loc.visited)>>,
                           [stack |-> <<>>, visited |-> loc.visited], ns, edgeStates, metrics)
    /\ pc' = "done"
    /\ UNCHANGED <<env, alg, graph, params, loc, edgeStates, metrics>>

InitDFS ==
    /\ alg = "dfs"
    /\ SomeGraph({1})
    /\ params \in StartParams
    /\ Idle

NextDFS ==
    \/ DFSStart
    \/ DFSPop
    \/ DFSNeighbor
    \/ DFSNodeDone
    \/ DFSFinish

SpecDFS == InitDFS /\ [][NextDFS]_vars

\* either traversal, as the registry dispatches on the selected algorithm id
InitTraversal ==
    /\ alg \in {"bfs", "dfs"}
    /\ SomeGraph({1})
    /\ params \in StartParams
    /\ Idle

NextTraversal ==
    \/ NextBFS
    \/ NextDFS

SpecTraversal == InitTraversal /\ [][NextTraversal]_vars

(* ---------------- mst/kruskal.ts (cycleDetection.ts:213-418) ----------- *)
\* the edges as graph.edges lists them, unsorted
KruskalUnsortedEdges(g, k) == [i \in 1 .. k |-> i]

\* [...graph.edges].sort((a, b) => a.weight - b.weight): the edge ids in
\* ascending weight, ties in the order of graph.edges (the sort is stable)
RECURSIVE KruskalSortEdges(_, _)
KruskalSortEdges(g, k) ==
    IF k = 0 THEN <<>>
    ELSE LET init == KruskalSortEdges(g, k - 1)
             p == Cardinality({j \in 1 .. Len(init) : g.edges[init[j]].weight <= g.edges[k].weight})
         IN SubSeq(init, 1, p) \o <<k>> \o SubSeq(init, p + 1, Len(init))

\* graph.edges.sort(...): the array of the graph itself, reordered
KruskalEdgesSortedInPlace(g) ==
    [k \in 1 .. Len(g.edges) |-> g.edges[KruskalSortEdges(g, Len(g.edges))[k]]]

\* graph.edges after the sort: the spread [...graph.edges] makes the array
\* that is sorted, so the graph's own array is as it was
KruskalEdgesAfterSort(g) == g.edges

\* UnionFind.find: the root of x ...
RECURSIVE UFRoot(_, _)
UFRoot(parent, x) == IF parent[x] = x THEN x ELSE UFRoot(parent, parent[x])

\* ... and its path compression: every node on the way from x becomes a child of the root
RECURSIVE UFCompress(_, _)
UFCompress(parent, x) ==
    IF parent[x] = x THEN parent
    ELSE [UFCompress(parent, parent[x]) EXCEPT ![x] = UFRoot(parent, x)]

\* a union that reports a merge whatever the roots are
UFUnionAlways(uf, x, y) == [merged |-> TRUE, parent |-> uf.parent, rank |-> uf.rank]

\* UnionFind.union(x, y): [merged, parent, rank]
UFUnion(uf, x, y) ==
    LET p1 == UFCompress(uf.parent, x)
        rootX == UFRoot(uf.parent, x)
        p2 == UFCompress(p1, y)
        rootY == UFRoot(p1, y)
        rankX == uf.rank[rootX]
        rankY == uf.rank[rootY]
    IN IF rootX = rootY THEN [merged |-> FALSE, parent |-> p2, rank |-> uf.rank]
       ELSE IF rankX < rankY
            THEN [merged |-> TRUE, parent |-> [p2 EXCEPT ![rootX] = rootY], rank |-> uf.rank]
       ELSE IF rankX > rankY
            THEN [merged |-> TRUE, parent |-> [p2 EXCEPT ![rootY] = rootX], rank |-> uf.rank]
       ELSE [merged |-> TRUE, parent |-> [p2 EXCEPT ![rootY] = rootX],
             rank |-> [uf.rank EXCEPT ![rootX] = rankX + 1]]

\* a loop that runs to the last edge
KruskalNeverStopsEarly(mstEdges, g) == FALSE

\* mstEdges.length === graph.nodes.length - 1
KruskalHasSpanningTree(mstEdges, g) == Len(mstEdges) = g.n - 1

KruskalStart ==
    /\ alg = "kruskal"
    /\ pc = "start"
    /\ LET ns == [v \in NodeIds(graph) |-> UNVISITED]
           es == [e \in EdgeIds(graph) |-> UNEXAMINED]
           sortedEdges == KruskalSortEdges(graph, Len(graph.edges))
       IN /\ loc' = [sortedEdges |-> sortedEdges,
                     uf |-> [parent |-> [v \in NodeIds(graph) |-> v],
                             rank |-> [v \in NodeIds(graph) |-> 0]],
                     mstEdges |-> <<>>,
                     totalWeight |-> 0,
                     k |-> 1]
          /\ nodeStates' = ns
          /\ edgeStates' = es
          /\ steps' = Emit(steps, <<"Sort edges">>, 1, <<"Sort edges", Len(graph.edges)>>,
                           [sortedEdges |-> sortedEdges], ns, es, metrics)
    /\ pc' = "loop"
    /\ graph' = [graph EXCEPT !.edges = KruskalEdgesAfterSort(graph)]
    /\ UNCHANGED <<env, alg, params, metrics>>

\* one iteration of for (const edge of sortedEdges)
KruskalEdge ==
    /\ alg = "kruskal"
    /\ pc = "loop"
    /\ loc.k <= Len(loc.sortedEdges)
    /\ LET id == loc.sortedEdges[loc.k]
           edge == graph.edges[id]
           m1 == [metrics EXCEPT !.edgesExamined = @ + 1, !.comparisons = @ + 1,
                                 !.operationsCount = @ + 1]
           es1 == [edgeStates EXCEPT ![id] = EXAMINING]
           s1 == Emit(steps, <<"Check edge">>, 4, <<"Consider edge", edge.source, edge.target, edge.weight>>,
                      [mstEdges |-> loc.mstEdges, totalWeight |-> loc.totalWeight],
                      nodeStates, es1, m1)
           u == UFUnion(loc.uf, edge.source, edge.target)
           uf == [parent |-> u.parent, rank |-> u.rank]
           mstEdges == IF u.merged THEN Append(loc.mstEdges, id) ELSE loc.mstEdges
           totalWeight == IF u.merged THEN loc.totalWeight + edge.weight ELSE loc.totalWeight
           es2 == [es1 EXCEPT ![id] = IF u.merged THEN IN_SOLUTION ELSE REJECTED]
           ns2 == IF u.merged
                  THEN [nodeStates EXCEPT ![edge.source] = IN_SOLUTION, ![edge.target] = IN_SOLUTION]
                  ELSE nodeStates
           m2 == IF u.merged THEN [m1 EXCEPT !.nodesVisited = @ + 2] ELSE m1
       IN /\ loc' = [loc EXCEPT !.uf = uf, !.mstEdges = mstEdges, !.totalWeight = totalWeight,
                                !.k = @ + 1]
          /\ nodeStates' = ns2
          /\ edgeStates' = es2
          /\ metrics' = m2
          /\ steps' = Emit(s1, IF u.merged THEN <<"Add to MST">> ELSE <<"Reject edge">>,
                           IF u.merged THEN 6 ELSE 5,
                           <<IF u.merged THEN "Add edge" ELSE "Reject edge", edge.source, edge.target>>,
                           [mstEdges |-> mstEdges, totalWeight |-> totalWeight],
                           ns2, es2, m2)
          \* if (mstEdges.length === graph.nodes.length - 1) break
          /\ pc' = IF KruskalHasSpanningTree(mstEdges, graph) THEN "final" ELSE "loop"
    /\ UNCHANGED <<env, alg, graph, params>>

\* the code after the loop (lines 406-417)
KruskalFinish ==
    /\ alg = "kruskal"
    /\ \/ pc = "final"
       \/ pc = "loop" /\ loc.k > Len(loc.sortedEdges)
    /\ steps' = Emit(steps, <<"Complete">>, 8, <<"Kruskal's complete", Len(loc.mstEdges), loc.totalWeight>>,
                     [totalWeight |-> loc.totalWeight, edgeCount |-> Len(loc.mstEdges)],
                     nodeStates, edgeStates, metrics)
    /\ pc' = "done"
    /\ UNCHANGED <<env, alg, graph, params, loc, nodeStates, edgeStates, metrics>>

\* An undirected graph; each edge is written with source < target, which
\* neither getEdgeBetween nor the adjacency list of an undirected graph tells
\* from the other orientation.
SomeUndirectedGraph(W) == GraphFrom(W, TRUE, {FALSE}, {0})

InitKruskal ==
    /\ alg = "kruskal"
    /\ SomeUndirectedGraph(0 .. MaxWeight)
    /\ params = [startNodeId |-> 0, endNodeId |-> 0]
    /\ Idle

NextKruskal ==
    \/ KruskalStart
    \/ KruskalEdge
    \/ KruskalFinish

SpecKruskal == InitKruskal /\ [][NextKruskal]_vars

(* ------------------------ other/topological.ts ------------------------- *)
\* the number of edges whose source is the node (the out-degree)
TopoOutDegree(g) ==
    [v \in NodeIds(g) |-> Cardinality({i \in EdgeIds(g) : g.edges[i].source = v})]

\* lines 50-56: the number of edges whose target is the node
TopoInDegree(g) ==
    [v \in NodeIds(g) |-> Cardinality({i \in EdgeIds(g) : g.edges[i].target = v})]

\* graph.edges.filter(e => e.source === currentId): edge ids in edge order
RECURSIVE TopoOutEdges(_, _, _)
TopoOutEdges(g, currentId, k) ==
    IF k = 0 THEN <<>>
    ELSE IF g.edges[k].source = currentId
         THEN Append(TopoOutEdges(g, currentId, k - 1), k)
         ELSE TopoOutEdges(g, currentId, k - 1)

\* every node, whatever its in-degree, in node order
TopoEveryNode(inDegree, k) == [i \in 1 .. k |-> i]

\* lines 78-84: the nodes of in-degree 0, in node order
RECURSIVE TopoInitialQueue(_, _)
TopoInitialQueue(inDegree, k) ==
    IF k = 0 THEN <<>>
    ELSE IF inDegree[k] = 0
         THEN Append(TopoInitialQueue(inDegree, k - 1), k)
         ELSE TopoInitialQueue(inDegree, k - 1)

\* line 173: if (result.length < graph.nodes.length)
TopoIncomplete(result, g) == Len(result) < g.n

TopoStart ==
    /\ alg = "topological"
    /\ pc = "start"
    /\ IF ~graph.directed
       THEN /\ pc' = "done"
            /\ UNCHANGED <<loc, nodeStates, edgeStates, metrics, steps>>
       ELSE LET ns == [v \in NodeIds(graph) |-> UNVISITED]
                es == [e \in EdgeIds(graph) |-> UNEXAMINED]
                inDegree == TopoInDegree(graph)
                s1 == Emit(steps, <<"Calculate in-degrees">>, 1, <<"Calculate in-degree">>,
                           [inDegrees |-> inDegree], ns, es, metrics)
                queue == TopoInitialQueue(inDegree, graph.n)
                ns1 == [v \in NodeIds(graph) |-> IF inDegree[v] = 0 THEN VISITING ELSE ns[v]]
            IN /\ loc' = [inDegree |-> inDegree,
                          queue |-> queue,
                          result |-> <<>>,
                          currentId |-> 0,
                          outEdges |-> <<>>,
                          j |-> 0]
               /\ nodeStates' = ns1
               /\ edgeStates' = es
               /\ steps' = Emit(s1, <<"Initialize queue">>, 2, <<"Initialize queue", queue>>,
                                [inDegrees |-> inDegree, queue |-> queue], ns1, es, metrics)
               /\ pc' = "loop"
               /\ UNCHANGED metrics
    /\ UNCHANGED <<env, alg, graph, params>>

\* one iteration of while (queue.length > 0) up to the loop over the outgoing edges
TopoDequeue ==
    /\ alg = "topological"
    /\ pc = "loop"
    /\ loc.queue # <<>>
    /\ LET currentId == Head(loc.queue)
           queue == Tail(loc.queue)
           result == Append(loc.result, currentId)
           m1 == [metrics EXCEPT !.nodesVisited = @ + 1, !.operationsCount = @ + 1]
           ns1 == [nodeStates EXCEPT ![currentId] = CURRENT]
       IN /\ loc' = [loc EXCEPT !.queue = queue, !.result = result, !.currentId = currentId,
                                !.outEdges = TopoOutEdges(graph, currentId, Len(graph.edges)),
                                !.j = 1]
          /\ nodeStates' = ns1
          /\ metrics' = m1
          /\ steps' = Emit(steps, <<"Process", currentId>>, 5, <<"Dequeue", currentId>>,
                           [inDegrees |-> loc.inDegree, queue |-> queue, result |-> result],
                           ns1, edgeStates, m1)
    /\ pc' = "edges"
    /\ UNCHANGED <<env, alg, graph, params, edgeStates>>

\* one iteration of for (const edge of graph.edges.filter(e => e.source === currentId))
TopoEdge ==
    /\ alg = "topological"
    /\ pc = "edges"
    /\ loc.j <= Len(loc.outEdges)
    /\ LET id == loc.outEdges[loc.j]
           neighborId == graph.edges[id].target
           m1 == [metrics EXCEPT !.edgesExamined = @ + 1]
           es1 == [edgeStates EXCEPT ![id] = IN_SOLUTION]
           newDegree == OrElse(loc.inDegree[neighborId], 0) - 1
           inDegree == [loc.inDegree EXCEPT ![neighborId] = newDegree]
           s1 == Emit(steps, <<"Update", neighborId>>, 8, <<"Decrement in-degree", neighborId, newDegree>>,
                      [inDegrees |-> inDegree, queue |-> loc.queue, result |-> loc.result],
                      nodeStates, es1, m1)
       IN /\ edgeStates' = es1
          /\ metrics' = m1
          /\ IF newDegree = 0
             THEN LET queue == Append(loc.queue, neighborId)
                      ns1 == [nodeStates EXCEPT ![neighborId] = VISITING]
                  IN /\ loc' = [loc EXCEPT !.inDegree = inDegree, !.queue = queue, !.j = @ + 1]
                     /\ nodeStates' = ns1
                     /\ steps' = Emit(s1, <<"Enqueue", neighborId>>, 9, <<"has in-degree 0", neighborId>>,
                                      [inDegrees |-> inDegree, queue |-> queue, result |-> loc.result],
                                      ns1, es1, m1)
             ELSE /\ loc' = [loc EXCEPT !.inDegree = inDegree, !.j = @ + 1]
                  /\ steps' = s1
                  /\ UNCHANGED nodeStates
    /\ UNCHANGED <<env, alg, graph, params, pc>>

\* after the loop over the outgoing edges: nodeStates.set(currentId, NodeState.IN_SOLUTION)
TopoNodeDone ==
    /\ alg = "topological"
    /\ pc = "edges"
    /\ loc.j > Len(loc.outEdges)
    /\ nodeStates' = [nodeStates EXCEPT ![loc.currentId] = IN_SOLUTION]
    /\ pc' = "loop"
    /\ UNCHANGED <<env, alg, graph, params, loc, edgeStates, metrics, steps>>

\* the code after the while loop (lines 173-197)
TopoFinish ==
    /\ alg = "topological"
    /\ pc = "loop"
    /\ loc.queue = <<>>
    /\ IF TopoIncomplete(loc.result, graph)
       THEN steps' = Emit(steps, <<"Cycle Detected">>, 10, <<"Cycle detected", Len(loc.result), graph.n>>,
                          [result |-> loc.result], nodeStates, edgeStates, metrics)
       ELSE steps' = Emit(steps, <<"Complete">>, 10, <<"Topological sort complete", loc.result>>,
                          [result |-> loc.result], nodeStates, edgeStates, metrics)
    /\ pc' = "done"
    /\ UNCHANGED <<env, alg, graph, params, loc, nodeStates, edgeStates, metrics>>

InitTopo ==
    /\ alg = "topological"
    /\ SomeGraph({1})
    /\ params = [startNodeId |-> 0, endNodeId |-> 0]
    /\ Idle

NextTopo ==
    \/ TopoStart
    \/ TopoDequeue
    \/ TopoEdge
    \/ TopoNodeDone
    \/ TopoFinish

SpecTopo == InitTopo /\ [][NextTopo]_vars

(* ------------------ shortestPath/astar.ts (part_001) ------------------- *)
\* Math.sqrt on the perfect squares the model's positions produce
Sqrt(k, bound) == CHOOSE r \in 0 .. bound : r * r = k

\* calculateDistance(node1, node2, type); the nodes lie on the line y = 0
calculateDistance(g, node1, node2, type) ==
    LET dx == IF g.x[node1] >= g.x[node2] THEN g.x[node1] - g.x[node2] ELSE g.x[node2] - g.x[node1]
        dy == 0
    IN IF type = "manhattan" THEN dx + dy ELSE Sqrt(dx * dx + dy * dy, dx + dy)

\* const h = (nodeId) => calculateDistance(node, endNode, heuristic) / 100;
\* positions are multiples of 100, so the division is exact.  heuristic is
\* left to its default 'euclidean'.
AStarH(g, nodeId, endNodeId) ==
    IF getNode(g, nodeId) = 0 \/ getNode(g, endNodeId) = 0 THEN Infinity
    ELSE calculateDistance(g, nodeId, endNodeId, "euclidean") \div 100

\* a queue that never reports a value as queued
AStarQueueHasNothing(items, value) == FALSE

\* PriorityQueue.has: this.items.some(item => item.value === value)
AStarQueueHas(items, value) == \E k \in 1 .. Len(items) : items[k].value = value

\* line 208: does the tentative g-score replace the recorded one?
AStarImproves(tentativeG, recorded) == tentativeG < OrElse(recorded, Infinity)

AStarStart ==
    /\ alg = "astar"
    /\ pc = "start"
    /\ IF \/ params.startNodeId = 0 \/ params.endNodeId = 0
          \/ getNode(graph, params.startNodeId) = 0 \/ getNode(graph, params.endNodeId) = 0
       THEN /\ pc' = "done"
            /\ UNCHANGED <<loc, nodeStates, edgeStates, metrics, steps>>
       ELSE LET s == params.startNodeId
                gScore == [v \in NodeIds(graph) |-> IF v = s THEN 0 ELSE Infinity]
                fScore == [v \in NodeIds(graph) |->
                             IF v = s THEN AStarH(graph, s, params.endNodeId) ELSE Infinity]
                openSet == PQEnqueue(<<>>, s, fScore[s])
                ns == [[v \in NodeIds(graph) |-> UNVISITED] EXCEPT ![s] = VISITING]
                es == [e \in EdgeIds(graph) |-> UNEXAMINED]
            IN /\ loc' = [adjList |-> toAdjacencyList(graph),
                          gScore |-> gScore,
                          fScore |-> fScore,
                          cameFrom |-> [v \in NodeIds(graph) |-> 0],
                          openSet |-> openSet,
                          closedSet |-> {},
                          currentId |-> 0,
                          i |-> 0]
               /\ nodeStates' = ns
               /\ edgeStates' = es
               /\ steps' = Emit(steps, <<"Initialize">>, 1, <<"Initialize A*", s, params.endNodeId>>,
                                [scores |-> [g |-> gScore, f |-> fScore], openSet |-> openSet],
                                ns, es, metrics)
               /\ pc' = "loop"
               /\ UNCHANGED metrics
    /\ UNCHANGED <<env, alg, graph, params>>

\* one iteration of while (!openSet.isEmpty()) up to the neighbor loop
AStarDequeue ==
    /\ alg = "astar"
    /\ pc = "loop"
    /\ loc.openSet # <<>>
    /\ LET current == Head(loc.openSet)
           openSet == Tail(loc.openSet)
           currentId == current.value
           m1 == [metrics EXCEPT !.operationsCount = @ + 1]
           ns1 == [nodeStates EXCEPT ![currentId] = CURRENT]
           s1 == Emit(steps, <<"Process", currentId>>, 5,
                      <<"Select", currentId, loc.fScore[currentId]>>,
                      [scores |-> [g |-> loc.gScore, f |-> loc.fScore], openSet |-> openSet],
                      ns1, edgeStates, m1)
       IN IF currentId = params.endNodeId
          THEN LET path == PathFrom(loc.cameFrom, currentId)
                   ns2 == MarkPathNodes(ns1, path)
                   es2 == MarkPathEdges(graph, edgeStates, path)
               IN /\ loc' = [loc EXCEPT !.openSet = openSet, !.currentId = currentId]
                  /\ metrics' = m1
                  /\ nodeStates' = ns2
                  /\ edgeStates' = es2
                  \* Cost: gScore.get(endNodeId)?.toFixed(1), the number itself here
                  /\ steps' = Emit(s1, <<"Path Found">>, 6,
                                   <<"Goal reached", path, loc.gScore[params.endNodeId]>>,
                                   [path |-> path], ns2, es2, m1)
                  /\ pc' = "done"
          ELSE /\ loc' = [loc EXCEPT !.openSet = openSet, !.closedSet = @ \cup {currentId},
                                     !.currentId = currentId, !.i = 1]
               /\ metrics' = [m1 EXCEPT !.nodesVisited = @ + 1]
               /\ nodeStates' = [ns1 EXCEPT ![currentId] = VISITED]
               /\ steps' = s1
               /\ pc' = IF loc.adjList[currentId] = <<>> THEN "loop" ELSE "neighbors"
               /\ UNCHANGED edgeStates
    /\ UNCHANGED <<env, alg, graph, params>>

\* one iteration of for (const { nodeId: neighborId, weight } of neighbors)
AStarNeighbor ==
    /\ alg = "astar"
    /\ pc = "neighbors"
    /\ LET currentId == loc.currentId
           neighborId == loc.adjList[currentId][loc.i].nodeId
           weight == loc.adjList[currentId][loc.i].weight
       IN IF neighborId \in loc.closedSet
          THEN /\ loc' = [loc EXCEPT !.i = @ + 1]
               /\ UNCHANGED <<nodeStates, edgeStates, metrics, steps>>
          ELSE LET edge == getEdgeBetween(graph, currentId, neighborId)
                   m1 == [metrics EXCEPT !.edgesExamined = @ + 1, !.comparisons = @ + 1]
                   es1 == IF edge # 0 THEN [edgeStates EXCEPT ![edge] = EXAMINING] ELSE edgeStates
                   tentativeG == OrElse(loc.gScore[currentId], 0) + weight
                   s1 == Emit(steps, <<"Check", neighborId>>, 9,
                              <<"Check neighbor", neighborId, tentativeG, loc.gScore[neighborId]>>,
                              [scores |-> [g |-> loc.gScore, f |-> loc.fScore]],
                              nodeStates, es1, m1)
               IN IF AStarImproves(tentativeG, loc.gScore[neighborId])
                  THEN LET gScore == [loc.gScore EXCEPT ![neighborId] = tentativeG]
                           f == tentativeG + AStarH(graph, neighborId, params.endNodeId)
                           fScore == [loc.fScore EXCEPT ![neighborId] = f]
                           queued == AStarQueueHas(loc.openSet, neighborId)
                           openSet == IF queued THEN loc.openSet
                                      ELSE PQEnqueue(loc.openSet, neighborId, f)
                           ns1 == IF queued THEN nodeStates
                                  ELSE [nodeStates EXCEPT ![neighborId] = VISITING]
                       IN /\ loc' = [loc EXCEPT !.gScore = gScore, !.fScore = fScore,
                                                !.cameFrom[neighborId] = currentId,
                                                !.openSet = openSet, !.i = @ + 1]
                          /\ nodeStates' = ns1
                          /\ edgeStates' = es1
                          /\ metrics' = m1
                          /\ steps' = Emit(s1, <<"Update", neighborId>>, 13,
                                           <<"Update", neighborId, tentativeG, f>>,
                                           [scores |-> [g |-> gScore, f |-> fScore],
                                            openSet |-> openSet],
                                           ns1, es1, m1)
                  ELSE /\ loc' = [loc EXCEPT !.i = @ + 1]
                       /\ edgeStates' = IF edge # 0 THEN [es1 EXCEPT ![edge] = REJECTED] ELSE es1
                       /\ metrics' = m1
                       /\ steps' = s1
                       /\ UNCHANGED nodeStates
    \* the last neighbor ends the iteration of the while loop
    /\ pc' = IF loc.i = Len(loc.adjList[loc.currentId]) THEN "loop" ELSE "neighbors"
    /\ UNCHANGED <<env, alg, graph, params>>

\* the code after the while loop (lines 234-245)
AStarFinish ==
    /\ alg = "astar"
    /\ pc = "loop"
    /\ loc.openSet = <<>>
    /\ steps' = Emit(steps, <<"No Path">>, 4, <<"No path found", params.startNodeId, params.endNodeId>>,
                     <<>>, nodeStates, edgeStates, metrics)
    /\ pc' = "done"
    /\ UNCHANGED <<env, alg, graph, params, loc, nodeStates, edgeStates, metrics>>

\* a graph whose nodes stand on the grid points 0, 100, ..., the first at 0
SomePlacedGraph(W) ==
    /\ GraphFrom(W, FALSE, BOOLEAN, {100 * k : k \in 0 .. MaxPos})
    /\ graph.x[1] = 0

InitAStar ==
    /\ alg = "astar"
    /\ SomePlacedGraph(0 .. MaxWeight)
    /\ params \in [startNodeId : {0, 1, graph.n + 1}, endNodeId : {0, 1, graph.n, graph.n + 1}]
    /\ Idle

NextAStar ==
    \/ AStarStart
    \/ AStarDequeue
    \/ AStarNeighbor
    \/ AStarFinish

SpecAStar == InitAStar /\ [][NextAStar]_vars

(* ----------------- mst/prim.ts (cycleDetection.ts:420-627) ------------- *)
\* an enqueue that never looks for an existing entry
PrimEnqueueAlwaysAppends(items, value, priority) ==
    SortByPriority(Append(items, [priority |-> priority, value |-> value]))

\* PriorityQueue.enqueue of Prim: a queued value keeps its single entry, whose
\* priority is lowered when the new one is smaller
PrimEnqueue(items, value, priority) ==
    LET existing == {k \in 1 .. Len(items) : items[k].value = value}
    IN IF existing # {}
       THEN LET k == CHOOSE j \in existing : \A l \in existing : j <= l
            IN IF priority < items[k].priority
               THEN SortByPriority([items EXCEPT ![k].priority = priority])
               ELSE items
       ELSE SortByPriority(Append(items, [priority |-> priority, value |-> value]))

\* graph.nodes.forEach(n => pq.enqueue(n.id, n.id === startNodeId ? 0 : Infinity))
RECURSIVE PrimInitialQueue(_, _)
PrimInitialQueue(startNodeId, k) ==
    IF k = 0 THEN <<>>
    ELSE PrimEnqueue(PrimInitialQueue(startNodeId, k - 1), k, IF k = startNodeId THEN 0 ELSE Infinity)

\* line 485: if (!startNodeId) return steps
PrimNoStart(p) == p.startNodeId = 0

\* line 591: does the edge weight replace the recorded key?
PrimImproves(weight, recorded) == weight < OrElse(recorded, Infinity)

PrimStart ==
    /\ alg = "prim"
    /\ pc = "start"
    /\ IF PrimNoStart(params)
       THEN /\ pc' = "done"
            /\ UNCHANGED <<loc, nodeStates, edgeStates, metrics, steps>>
       ELSE LET s == params.startNodeId
                key == [v \in NodeIds(graph) |-> IF v = s THEN 0 ELSE Infinity]
                ns == [v \in NodeIds(graph) |-> UNVISITED]
                es == [e \in EdgeIds(graph) |-> UNEXAMINED]
            IN /\ loc' = [adjList |-> toAdjacencyList(graph),
                          key |-> key,
                          parent |-> [v \in NodeIds(graph) |-> 0],
                          inMST |-> {},
                          pq |-> PrimInitialQueue(s, graph.n),
                          totalWeight |-> 0,
                          currentId |-> 0,
                          i |-> 0]
               /\ nodeStates' = ns
               /\ edgeStates' = es
               /\ steps' = Emit(steps, <<"Initialize">>, 1, <<"Initialize Prim's", getNode(graph, s)>>,
                                [keys |-> key], ns, es, metrics)
               /\ pc' = "loop"
               /\ UNCHANGED metrics
    /\ UNCHANGED <<env, alg, graph, params>>

\* one iteration of while (!pq.isEmpty()) up to the neighbor loop
PrimDequeue ==
    /\ alg = "prim"
    /\ pc = "loop"
    /\ loc.pq # <<>>
    /\ LET current == Head(loc.pq)
           pq == Tail(loc.pq)
           currentId == current.value
           m1 == [metrics EXCEPT !.operationsCount = @ + 1]
       IN IF currentId \in loc.inMST
          THEN /\ loc' = [loc EXCEPT !.pq = pq]
               /\ metrics' = m1
               /\ UNCHANGED <<pc, nodeStates, edgeStates, steps>>
          ELSE LET inMST == loc.inMST \cup {currentId}
                   ns1 == [nodeStates EXCEPT ![currentId] = IN_SOLUTION]
                   m2 == [m1 EXCEPT !.nodesVisited = @ + 1]
                   parentId == loc.parent[currentId]
                   edge == IF parentId # 0 THEN getEdgeBetween(graph, parentId, currentId) ELSE 0
                   es1 == IF edge # 0 THEN [edgeStates EXCEPT ![edge] = IN_SOLUTION] ELSE edgeStates
                   totalWeight == IF edge # 0 THEN loc.totalWeight + graph.edges[edge].weight
                                  ELSE loc.totalWeight
               IN /\ loc' = [loc EXCEPT !.pq = pq, !.inMST = inMST, !.totalWeight = totalWeight,
                                        !.currentId = currentId, !.i = 1]
                  /\ nodeStates' = ns1
                  /\ edgeStates' = es1
                  /\ metrics' = m2
                  /\ steps' = Emit(steps, <<"Add", currentId>>, 5, <<"Add to MST", currentId, parentId>>,
                                   [keys |-> loc.key, totalWeight |-> totalWeight,
                                    mstSize |-> Cardinality(inMST)],
                                   ns1, es1, m2)
                  /\ pc' = IF loc.adjList[currentId] = <<>> THEN "loop" ELSE "neighbors"
    /\ UNCHANGED <<env, alg, graph, params>>

\* one iteration of for (const { nodeId: neighborId, weight } of neighbors)
PrimNeighbor ==
    /\ alg = "prim"
    /\ pc = "neighbors"
    /\ LET currentId == loc.currentId
           neighborId == loc.adjList[currentId][loc.i].nodeId
           weight == loc.adjList[currentId][loc.i].weight
       IN IF neighborId \in loc.inMST
          THEN /\ loc' = [loc EXCEPT !.i = @ + 1]
               /\ UNCHANGED <<nodeStates, edgeStates, metrics, steps>>
          ELSE LET edge == getEdgeBetween(graph, currentId, neighborId)
                   m1 == [metrics EXCEPT !.edgesExamined = @ + 1, !.comparisons = @ + 1]
                   es1 == IF edge # 0 THEN [edgeStates EXCEPT ![edge] = EXAMINING] ELSE edgeStates
                   s1 == Emit(steps, <<"Check", neighborId>>, 7,
                              <<"Check edge", currentId, neighborId, weight, loc.key[neighborId]>>,
                              [keys |-> loc.key], nodeStates, es1, m1)
               IN IF PrimImproves(weight, loc.key[neighborId])
                  THEN LET key == [loc.key EXCEPT ![neighborId] = weight]
                           ns1 == [nodeStates EXCEPT ![neighborId] = VISITING]
                       IN /\ loc' = [loc EXCEPT !.key = key, !.parent[neighborId] = currentId,
                                                !.pq = PrimEnqueue(@, neighborId, weight),
                                                !.i = @ + 1]
                          /\ nodeStates' = ns1
                          /\ edgeStates' = es1
                          /\ metrics' = m1
                          /\ steps' = Emit(s1, <<"Update", neighborId>>, 9,
                                           <<"Update key", neighborId, weight, currentId>>,
                                           [keys |-> key], ns1, es1, m1)
                  ELSE /\ loc' = [loc EXCEPT !.i = @ + 1]
                       /\ edgeStates' = IF edge # 0 /\ es1[edge] # IN_SOLUTION
                                        THEN [es1 EXCEPT ![edge] = REJECTED] ELSE es1
                       /\ metrics' = m1
                       /\ steps' = s1
                       /\ UNCHANGED nodeStates
    \* the last neighbor ends the iteration of the while loop
    /\ pc' = IF loc.i = Len(loc.adjList[loc.currentId]) THEN "loop" ELSE "neighbors"
    /\ UNCHANGED <<env, alg, graph, params>>

\* the code after the while loop (lines 615-626)
PrimFinish ==
    /\ alg = "prim"
    /\ pc = "loop"
    /\ loc.pq = <<>>
    /\ steps' = Emit(steps, <<"Complete">>, 9,
                     <<"Prim's complete", Cardinality(loc.inMST), loc.totalWeight>>,
                     [totalWeight |-> loc.totalWeight, nodeCount |-> Cardinality(loc.inMST)],
                     nodeStates, edgeStates, metrics)
    /\ pc' = "done"
    /\ UNCHANGED <<env, alg, graph, params, loc, nodeStates, edgeStates, metrics>>

InitPrim ==
    /\ alg = "prim"
    /\ SomeGraph(0 .. MaxWeight)
    /\ params \in [startNodeId : {0, 1, graph.n + 1}, endNodeId : {0}]
    /\ Idle

NextPrim ==
    \/ PrimStart
    \/ PrimDequeue
    \/ PrimNeighbor
    \/ PrimFinish

SpecPrim == InitPrim /\ [][NextPrim]_vars

(* ------------------- other/connectedComponents.ts ---------------------- *)
COMPONENT_COLORS == <<IN_SOLUTION, VISITING, VISITED, IN_PATH, CURRENT>>

\* COMPONENT_COLORS[compId % COMPONENT_COLORS.length], the array indexed from 0
ComponentColor(compId) == COMPONENT_COLORS[(compId % Len(COMPONENT_COLORS)) + 1]

\* an entry for the nodes of the graph but the last
ComponentsSomeNodeStates(g) == [v \in 1 .. g.n - 1 |-> UNVISITED]

\* graph.nodes.forEach(n => nodeStates.set(n.id, NodeState.UNVISITED))
ComponentsNodeStates(g) == [v \in NodeIds(g) |-> UNVISITED]

\* the counters of the visit alone, what went before forgotten
ComponentsResetMetrics(m) == [ZeroMetrics EXCEPT !.nodesVisited = 1, !.operationsCount = 1]

\* metrics.nodesVisited++; metrics.operationsCount++
ComponentsVisitMetrics(m) == [m EXCEPT !.nodesVisited = @ + 1, !.operationsCount = @ + 1]

\* The entry of dfs(nodeId, compId) (lines 72-93): the node joins the
\* component, the 'Visit' step, and a new frame on the call stack.
ComponentsEnter(nodeId, compId, l, ns, es, m, s) ==
    LET component == Append(l.component, [nodeId |-> nodeId, compId |-> compId])
        ns1 == [ns EXCEPT ![nodeId] = ComponentColor(compId)]
        m1 == ComponentsVisitMetrics(m)
    IN [loc |-> [l EXCEPT !.visited = Append(@, nodeId),
                          !.component = component,
                          !.stack = Append(@, [nodeId |-> nodeId, i |-> 1])],
        nodeStates |-> ns1,
        metrics |-> m1,
        steps |-> Emit(s, <<"Visit", nodeId>>, 8, <<"Visit", nodeId, compId + 1>>,
                       [componentCount |-> compId + 1, components |-> component],
                       ns1, es, m1)]

ComponentsStart ==
    /\ alg = "connectedComponents"
    /\ pc = "start"
    /\ LET ns == ComponentsNodeStates(graph)
           es == [e \in EdgeIds(graph) |-> UNEXAMINED]
       IN /\ loc' = [adjList |-> toAdjacencyList(graph),
                     visited |-> <<>>,
                     component |-> <<>>,
                     componentId |-> 0,
                     stack |-> <<>>,
                     root |-> 1]
          /\ nodeStates' = ns
          /\ edgeStates' = es
          /\ steps' = Emit(steps, <<"Initialize">>, 0, <<"Start finding connected components">>,
                           [componentCount |-> 0], ns, es, metrics)
    /\ pc' = "outer"
    /\ UNCHANGED <<env, alg, graph, params, metrics>>

\* one iteration of for (const node of graph.nodes), up to the call of dfs
ComponentsOuter ==
    /\ alg = "connectedComponents"
    /\ pc = "outer"
    /\ loc.root <= graph.n
    /\ LET node == loc.root
       IN IF ~Has(loc.visited, node)
          THEN LET s1 == Emit(steps, <<"New component from", node>>, 4,
                              <<"Start new component", loc.componentId + 1, node>>,
                              [componentCount |-> loc.componentId + 1],
                              nodeStates, edgeStates, metrics)
                   r == ComponentsEnter(node, loc.componentId, loc, nodeStates, edgeStates,
                                        metrics, s1)
               IN /\ loc' = r.loc
                  /\ nodeStates' = r.nodeStates
                  /\ metrics' = r.metrics
                  /\ steps' = r.steps
                  /\ pc' = "dfs"
          ELSE /\ loc' = [loc EXCEPT !.root = @ + 1]
               /\ UNCHANGED <<pc, nodeStates, metrics, steps>>
    /\ UNCHANGED <<env, alg, graph, params, edgeStates>>

\* one iteration of for (const { nodeId: neighborId } of neighbors) in the
\* innermost active call of dfs
ComponentsNeighbor ==
    /\ alg = "connectedComponents"
    /\ pc = "dfs"
    /\ LET top == loc.stack[Len(loc.stack)]
           nodeId == top.nodeId
       IN /\ top.i <= Len(loc.adjList[nodeId])
          /\ LET neighborId == loc.adjList[nodeId][top.i].nodeId
                 edge == getEdgeBetween(graph, nodeId, neighborId)
                 m1 == [metrics EXCEPT !.edgesExamined = @ + 1]
                 l1 == [loc EXCEPT !.stack[Len(loc.stack)].i = @ + 1]
             IN IF ~Has(loc.visited, neighborId)
                THEN LET es1 == IF edge # 0 THEN [edgeStates EXCEPT ![edge] = IN_SOLUTION]
                                ELSE edgeStates
                         r == ComponentsEnter(neighborId, loc.componentId, l1, nodeStates, es1,
                                              m1, steps)
                     IN /\ loc' = r.loc
                        /\ edgeStates' = es1
                        /\ nodeStates' = r.nodeStates
                        /\ metrics' = r.metrics
                        /\ steps' = r.steps
                ELSE /\ loc' = l1
                     /\ metrics' = m1
                     /\ UNCHANGED <<nodeStates, edgeStates, steps>>
    /\ UNCHANGED <<env, alg, graph, params, pc>>

\* the end of dfs(nodeId, compId): return to the caller; the outermost call
\* returns to the loop over the nodes, which counts the component
ComponentsReturn ==
    /\ alg = "connectedComponents"
    /\ pc = "dfs"
    /\ LET top == loc.stack[Len(loc.stack)]
           stack == SubSeq(loc.stack, 1, Len(loc.stack) - 1)
       IN /\ top.i > Len(loc.adjList[top.nodeId])
          /\ IF stack = <<>>
             THEN /\ loc' = [loc EXCEPT !.stack = stack, !.componentId = @ + 1, !.root = @ + 1]
                  /\ pc' = "outer"
             ELSE /\ loc' = [loc EXCEPT !.stack = stack]
                  /\ pc' = "dfs"
    /\ UNCHANGED <<env, alg, graph, params, nodeStates, edgeStates, metrics, steps>>

\* the code after the loop over the nodes (lines 136-150)
ComponentsFinish ==
    /\ alg = "connectedComponents"
    /\ pc = "outer"
    /\ loc.root > graph.n
    /\ steps' = Emit(steps, <<"Complete">>, 5, <<"Found components", loc.componentId>>,
                     [componentCount |-> loc.componentId, components |-> loc.component],
                     nodeStates, edgeStates, metrics)
    /\ pc' = "done"
    /\ UNCHANGED <<env, alg, graph, params, loc, nodeStates, edgeStates, metrics>>

InitComponents ==
    /\ alg = "connectedComponents"
    /\ SomeGraph({1})
    /\ params = [startNodeId |-> 0, endNodeId |-> 0]
    /\ Idle

NextComponents ==
    \/ ComponentsStart
    \/ ComponentsOuter
    \/ ComponentsNeighbor
    \/ ComponentsReturn
    \/ ComponentsFinish

SpecComponents == InitComponents /\ [][NextComponents]_vars

(* ------------- the executors that take a start node, together ---------- *)
StartNodeExecutors == {"bfs", "dfs", "dijkstra", "astar", "prim"}

InitStartNode ==
    /\ alg \in StartNodeExecutors
    /\ SomeGraph({1})
    /\ params \in [startNodeId : {0, 1, graph.n + 1}, endNodeId : {0, graph.n}]
    /\ Idle

NextStartNode ==
    \/ NextBFS
    \/ NextDFS
    \/ NextDijkstra
    \/ NextAStar
    \/ NextPrim

SpecStartNode == InitStartNode /\ [][NextStartNode]_vars

(* ------------- algorithms/index.ts: every registered executor ---------- *)
\* the ids of the `algorithms` array, in its order
AlgorithmIds ==
    <<"bfs", "dfs", "dijkstra", "astar", "kruskal", "prim", "topological",
      "cycleDetection", "connectedComponents">>

Executors == {AlgorithmIds[k] : k \in 1 .. Len(AlgorithmIds)}

\* the parameters an executor reads: a start and an end node for those that
\* take them, nothing for the others
ParamsFor(id) ==
    IF id \in StartNodeExecutors
    THEN params \in [startNodeId : {0, 1, graph.n + 1}, endNodeId : {0, graph.n}]
    ELSE params = [startNodeId |-> 0, endNodeId |-> 0]

InitAll ==
    /\ alg \in Executors
    /\ SomeGraph(0 .. MaxWeight)
    /\ ParamsFor(alg)
    /\ Idle

\* algorithm.execute(graph, params) of the registry entry `alg`
NextAll ==
    \/ NextBFS
    \/ NextDFS
    \/ NextDijkstra
    \/ NextAStar
    \/ NextKruskal
    \/ NextPrim
    \/ NextTopo
    \/ NextCycle
    \/ NextComponents

SpecAll == InitAll /\ [][NextAll]_vars

(* --------- algorithms/index.ts: one caller, one call after another ----- *)
\* The graphs of the specifications in which executors are called repeatedly.
SomeSmallGraph(W) ==
    /\ SomeGraph(W)
    /\ graph.n <= MaxSmallNodes
    /\ Len(graph.edges) <= MaxSmallEdges

\* the counters a call would start from if the metrics object outlived the call
CarriedMetrics == metrics

\* let metrics = { nodesVisited: 0, edgesExamined: 0, operationsCount: 0,
\* comparisons: 0 }: the object is made anew in every call
FreshMetrics == ZeroMetrics

\* Entering execute(graph, params): steps, nodeStates, edgeStates, metrics and
\* every other variable of the executor are locals of the call.
EnterExecutor ==
    /\ pc' = "start"
    /\ loc' = <<>>
    /\ nodeStates' = <<>>
    /\ edgeStates' = <<>>
    /\ metrics' = FreshMetrics
    /\ steps' = <<>>

\* The caller keeps the steps of its first call and calls the registry again
\* with the same graph and params: any executor first, and once another
\* executor has run in between, the first one again.
CallAgain ==
    /\ pc = "done"
    /\ IF caller = <<>>
       THEN /\ caller' = [first |-> [id |-> alg, steps |-> steps], between |-> FALSE]
            /\ alg' \in Executors
       ELSE /\ ~caller.between
            /\ alg # caller.first.id
            /\ caller' = [caller EXCEPT !.between = TRUE]
            /\ alg' = caller.first.id
    /\ EnterExecutor
    /\ UNCHANGED <<algorithmStore, comparisonStore, graphStore, graph, params>>

InitRegistry ==
    /\ alg \in Executors
    /\ SomeSmallGraph(0 .. MaxWeight)
    /\ params \in [startNodeId : {0, 1, graph.n + 1}, endNodeId : {0, graph.n}]
    /\ Idle

NextRegistry ==
    \/ CallAgain
    \/ NextBFS
    \/ NextDFS
    \/ NextDijkstra
    \/ NextAStar
    \/ NextKruskal
    \/ NextPrim
    \/ NextTopo
    \/ NextCycle
    \/ NextComponents

SpecRegistry == InitRegistry /\ [][NextRegistry]_vars

(* ------------------ store/algorithmStore.ts (part_002) ----------------- *)
\* The store holds selectedAlgorithmId ("" for null), steps, currentStepIndex
\* (-1: no step applied; step k of the source is steps[k + 1] here), isPlaying,
\* nodeStates and edgeStates (<<>> for new Map()).  algorithmParams is `params`
\* and the graph handed to runAlgorithm is `graph`.
NoAlgorithm == ""

\* the ids a caller may select: the registered ones, null and an unknown one
SelectableIds == Executors \cup {NoAlgorithm, "unknown"}

InitialAlgorithmStore ==
    [selectedAlgorithmId |-> NoAlgorithm,
     steps |-> <<>>,
     currentStepIndex |-> -1,
     isPlaying |-> FALSE,
     nodeStates |-> <<>>,
     edgeStates |-> <<>>]

\* a cursor on the first step, whatever the steps are
CursorAtFirstStep(s) == 0

\* currentStepIndex: -1 in the set() of runAlgorithm
CursorAfterRun(s) == -1

selectAlgorithm(st, algorithmId) ==
    [st EXCEPT !.selectedAlgorithmId = algorithmId,
               !.steps = <<>>,
               !.currentStepIndex = -1,
               !.isPlaying = FALSE,
               !.nodeStates = <<>>,
               !.edgeStates = <<>>]

resetExecution(st) ==
    [st EXCEPT !.steps = <<>>,
               !.currentStepIndex = -1,
               !.isPlaying = FALSE,
               !.nodeStates = <<>>,
               !.edgeStates = <<>>]

\* an applyStep that moves the cursor and leaves what is displayed
applyStepCursorOnly(st, stepIndex) ==
    IF stepIndex >= 0 /\ stepIndex < Len(st.steps)
    THEN [st EXCEPT !.currentStepIndex = stepIndex]
    ELSE st

applyStep(st, stepIndex) ==
    IF stepIndex >= 0 /\ stepIndex < Len(st.steps)
    THEN LET step == st.steps[stepIndex + 1]
         IN [st EXCEPT !.currentStepIndex = stepIndex,
                       !.nodeStates = step.nodeStates,
                       !.edgeStates = step.edgeStates]
    ELSE st

stepForward(st) ==
    IF st.currentStepIndex < Len(st.steps) - 1
    THEN applyStep(st, st.currentStepIndex + 1)
    ELSE [st EXCEPT !.isPlaying = FALSE]

stepBackward(st) ==
    IF st.currentStepIndex > 0
    THEN applyStep(st, st.currentStepIndex - 1)
    ELSE IF st.currentStepIndex = 0
         THEN [st EXCEPT !.currentStepIndex = -1, !.nodeStates = <<>>, !.edgeStates = <<>>]
         ELSE st

\* a jump to the start that also drops the steps
jumpToStartDroppingSteps(st) ==
    [st EXCEPT !.steps = <<>>,
               !.currentStepIndex = -1,
               !.isPlaying = FALSE,
               !.nodeStates = <<>>,
               !.edgeStates = <<>>]

jumpToStart(st) ==
    [st EXCEPT !.currentStepIndex = -1,
               !.isPlaying = FALSE,
               !.nodeStates = <<>>,
               !.edgeStates = <<>>]

jumpToEnd(st) ==
    IF Len(st.steps) > 0
    THEN [applyStep(st, Len(st.steps) - 1) EXCEPT !.isPlaying = FALSE]
    ELSE st

\* no executor is running: the store's handlers run one at a time
StoreIdle ==
    /\ pc = "idle"
    /\ alg = "none"

\* a handler that only updates the store
StoreOnly == UNCHANGED <<comparisonStore, caller, graphStore, alg, graph, params, pc, loc, nodeStates,
                         edgeStates, metrics, steps>>

SelectAlgorithm ==
    /\ StoreIdle
    /\ \E algorithmId \in SelectableIds :
           algorithmStore' = selectAlgorithm(algorithmStore, algorithmId)
    /\ StoreOnly

\* runAlgorithm up to algorithm.execute(graph, state.algorithmParams); without
\* a registered selection it returns at once
RunAlgorithm ==
    /\ StoreIdle
    /\ algorithmStore.selectedAlgorithmId \in Executors
    /\ alg' = algorithmStore.selectedAlgorithmId
    /\ caller' = "runAlgorithm"
    /\ EnterExecutor
    /\ UNCHANGED <<algorithmStore, comparisonStore, graphStore, graph, params>>

\* the set() of runAlgorithm once execute has returned
RunAlgorithmReturn ==
    /\ pc = "done"
    /\ caller = "runAlgorithm"
    /\ algorithmStore' = [algorithmStore EXCEPT !.steps = steps,
                                                !.currentStepIndex = CursorAfterRun(steps),
                                                !.isPlaying = FALSE,
                                                !.nodeStates = <<>>,
                                                !.edgeStates = <<>>]
    /\ pc' = "idle"
    /\ alg' = "none"
    /\ caller' = <<>>
    /\ loc' = <<>>
    /\ nodeStates' = <<>>
    /\ edgeStates' = <<>>
    /\ metrics' = ZeroMetrics
    /\ steps' = <<>>
    /\ UNCHANGED <<comparisonStore, graphStore, graph, params>>

ResetExecution ==
    /\ StoreIdle
    /\ algorithmStore' = resetExecution(algorithmStore)
    /\ StoreOnly

Play ==
    /\ StoreIdle
    /\ algorithmStore' = [algorithmStore EXCEPT !.isPlaying = TRUE]
    /\ StoreOnly

Pause ==
    /\ StoreIdle
    /\ algorithmStore' = [algorithmStore EXCEPT !.isPlaying = FALSE]
    /\ StoreOnly

StepForward ==
    /\ StoreIdle
    /\ algorithmStore' = stepForward(algorithmStore)
    /\ StoreOnly

StepBackward ==
    /\ StoreIdle
    /\ algorithmStore' = stepBackward(algorithmStore)
    /\ StoreOnly

JumpToStart ==
    /\ StoreIdle
    /\ algorithmStore' = jumpToStart(algorithmStore)
    /\ StoreOnly

JumpToEnd ==
    /\ StoreIdle
    /\ algorithmStore' = jumpToEnd(algorithmStore)
    /\ StoreOnly

\* applyStep called from outside with any index: below the range, in it, above
ApplyStep ==
    /\ StoreIdle
    /\ \E stepIndex \in -2 .. Len(algorithmStore.steps) + 1 :
           algorithmStore' = applyStep(algorithmStore, stepIndex)
    /\ StoreOnly

\* a timer callback that steps backward
timerStepsBackward(st) == stepBackward(st)

\* the callback of window.setInterval: stepForward()
timerCallback(st) == stepForward(st)

\* PlaybackControls, "Auto-step when playing": while isPlaying and there are
\* steps an interval timer is set, and each of its ticks calls stepForward
TimerTick ==
    /\ StoreIdle
    /\ algorithmStore.isPlaying
    /\ Len(algorithmStore.steps) > 0
    /\ algorithmStore' = timerCallback(algorithmStore)
    /\ StoreOnly

\* PlaybackControls, "Stop playing when reaching end": the effect calls
\* pause() when the cursor is on the last step (or there is none) and isPlaying
AutoPause ==
    /\ StoreIdle
    /\ algorithmStore.currentStepIndex >= Len(algorithmStore.steps) - 1
    /\ algorithmStore.isPlaying
    /\ algorithmStore' = [algorithmStore EXCEPT !.isPlaying = FALSE]
    /\ StoreOnly

InitAlgorithmStore ==
    /\ algorithmStore = InitialAlgorithmStore
    /\ comparisonStore = <<>>
    /\ caller = <<>>
    /\ graphStore = <<>>
    /\ SomeSmallGraph({1})
    /\ params \in [startNodeId : {0, 1}, endNodeId : {0, graph.n}]
    /\ StoreIdle
    /\ loc = <<>>
    /\ nodeStates = <<>>
    /\ edgeStates = <<>>
    /\ metrics = ZeroMetrics
    /\ steps = <<>>

NextAlgorithmStore ==
    \/ SelectAlgorithm
    \/ RunAlgorithm
    \/ RunAlgorithmReturn
    \/ ResetExecution
    \/ Play
    \/ Pause
    \/ StepForward
    \/ StepBackward
    \/ JumpToStart
    \/ JumpToEnd
    \/ ApplyStep
    \/ NextBFS
    \/ NextDFS
    \/ NextDijkstra
    \/ NextAStar
    \/ NextKruskal
    \/ NextPrim
    \/ NextTopo
    \/ NextCycle
    \/ NextComponents
    \/ TimerTick
    \/ AutoPause

SpecAlgorithmStore == InitAlgorithmStore /\ [][NextAlgorithmStore]_vars

\* A session in which the user leaves the controls alone while the playback
\* runs: the handlers are called only while isPlaying is false, the timer
\* ticks for as long as its interval is set, and an effect that is due runs.
UserAtRest == ~algorithmStore.isPlaying

NextPlayback ==
    \/ UserAtRest /\ SelectAlgorithm
    \/ UserAtRest /\ RunAlgorithm
    \/ RunAlgorithmReturn
    \/ UserAtRest /\ ResetExecution
    \/ UserAtRest /\ Play
    \/ UserAtRest /\ StepForward
    \/ UserAtRest /\ StepBackward
    \/ UserAtRest /\ JumpToStart
    \/ UserAtRest /\ JumpToEnd
    \/ TimerTick
    \/ AutoPause
    \/ NextBFS
    \/ NextDFS
    \/ NextDijkstra
    \/ NextAStar
    \/ NextKruskal
    \/ NextPrim
    \/ NextTopo
    \/ NextCycle
    \/ NextComponents

SpecPlayback ==
    /\ InitAlgorithmStore
    /\ [][NextPlayback]_vars
    /\ WF_vars(TimerTick)
    /\ WF_vars(AutoPause)

(* --------------- store/graphStore.ts: useComparisonStore --------------- *)
\* The store holds algorithm1Id and algorithm2Id ("" for null), steps1, steps2,
\* currentStep1, currentStep2 (indices of the source: step k is steps[k + 1]
\* here), isPlaying and the four maps (<<>> for new Map()).  startNodeId and
\* endNodeId of the store are `params`, the graph handed to runComparison is
\* `graph`.
InitialComparisonStore ==
    [algorithm1Id |-> NoAlgorithm,
     algorithm2Id |-> NoAlgorithm,
     steps1 |-> <<>>,
     steps2 |-> <<>>,
     currentStep1 |-> -1,
     currentStep2 |-> -1,
     isPlaying |-> FALSE,
     nodeStates1 |-> <<>>,
     edgeStates1 |-> <<>>,
     nodeStates2 |-> <<>>,
     edgeStates2 |-> <<>>]

\* the executors the model lets the comparison select: executeBFS returns no
\* step without a start node, executeTopologicalSort none on an undirected graph
ComparedIds == {"bfs", "topological"}

\* steps[k]?.nodeStates || new Map()
NodeStatesAt(s, k) == IF k >= 0 /\ k < Len(s) THEN s[k + 1].nodeStates ELSE <<>>

\* steps[k]?.edgeStates || new Map()
EdgeStatesAt(s, k) == IF k >= 0 /\ k < Len(s) THEN s[k + 1].edgeStates ELSE <<>>

Min(a, b) == IF a <= b THEN a ELSE b

Max(a, b) == IF a >= b THEN a ELSE b

\* set({ currentStep1, currentStep2, nodeStates1, ..., edgeStates2 })
ShowSteps(st, newStep1, newStep2) ==
    [st EXCEPT !.currentStep1 = newStep1,
               !.currentStep2 = newStep2,
               !.nodeStates1 = NodeStatesAt(st.steps1, newStep1),
               !.edgeStates1 = EdgeStatesAt(st.steps1, newStep1),
               !.nodeStates2 = NodeStatesAt(st.steps2, newStep2),
               !.edgeStates2 = EdgeStatesAt(st.steps2, newStep2)]

resetComparison(st) ==
    [st EXCEPT !.steps1 = <<>>,
               !.steps2 = <<>>,
               !.currentStep1 = -1,
               !.currentStep2 = -1,
               !.isPlaying = FALSE,
               !.nodeStates1 = <<>>,
               !.edgeStates1 = <<>>,
               !.nodeStates2 = <<>>,
               !.edgeStates2 = <<>>]

comparisonStepForward(st) ==
    LET newStep1 == Min(st.currentStep1 + 1, Len(st.steps1) - 1)
        newStep2 == Min(st.currentStep2 + 1, Len(st.steps2) - 1)
        shown == ShowSteps(st, newStep1, newStep2)
    IN IF newStep1 >= Len(st.steps1) - 1 /\ newStep2 >= Len(st.steps2) - 1
       THEN [shown EXCEPT !.isPlaying = FALSE]
       ELSE shown

comparisonStepBackward(st) ==
    ShowSteps(st, Max(st.currentStep1 - 1, 0), Max(st.currentStep2 - 1, 0))

comparisonJumpToStart(st) == [ShowSteps(st, 0, 0) EXCEPT !.isPlaying = FALSE]

comparisonJumpToEnd(st) ==
    [ShowSteps(st, Len(st.steps1) - 1, Len(st.steps2) - 1) EXCEPT !.isPlaying = FALSE]

\* a handler that only updates the comparison store
ComparisonOnly == UNCHANGED <<algorithmStore, caller, graphStore, alg, graph, params, pc, loc, nodeStates,
                              edgeStates, metrics, steps>>

SelectAlgorithm1 ==
    /\ StoreIdle
    /\ \E id \in ComparedIds \cup {NoAlgorithm} :
           comparisonStore' = [comparisonStore EXCEPT !.algorithm1Id = id]
    /\ ComparisonOnly

SelectAlgorithm2 ==
    /\ StoreIdle
    /\ \E id \in ComparedIds \cup {NoAlgorithm} :
           comparisonStore' = [comparisonStore EXCEPT !.algorithm2Id = id]
    /\ ComparisonOnly

\* runComparison up to algo1.execute(graph, params); it returns at once
\* unless both selections are registered
RunComparison ==
    /\ StoreIdle
    /\ comparisonStore.algorithm1Id \in Executors
    /\ comparisonStore.algorithm2Id \in Executors
    /\ alg' = comparisonStore.algorithm1Id
    /\ caller' = [handler |-> "runComparison", steps1 |-> <<>>, call |-> 1]
    /\ EnterExecutor
    /\ UNCHANGED <<algorithmStore, comparisonStore, graphStore, graph, params>>

\* const steps1 = algo1.execute(...) has returned: algo2.execute(graph, params)
RunComparisonSecond ==
    /\ pc = "done"
    /\ caller.call = 1
    /\ alg' = comparisonStore.algorithm2Id
    /\ caller' = [caller EXCEPT !.steps1 = steps, !.call = 2]
    /\ EnterExecutor
    /\ UNCHANGED <<algorithmStore, comparisonStore, graphStore, graph, params>>

\* the set() of runComparison once both executors have returned
RunComparisonReturn ==
    /\ pc = "done"
    /\ caller.call = 2
    /\ comparisonStore' = ShowSteps([comparisonStore EXCEPT !.steps1 = caller.steps1,
                                                            !.steps2 = steps], 0, 0)
    /\ pc' = "idle"
    /\ alg' = "none"
    /\ caller' = <<>>
    /\ loc' = <<>>
    /\ nodeStates' = <<>>
    /\ edgeStates' = <<>>
    /\ metrics' = ZeroMetrics
    /\ steps' = <<>>
    /\ UNCHANGED <<algorithmStore, graphStore, graph, params>>

ResetComparison ==
    /\ StoreIdle
    /\ comparisonStore' = resetComparison(comparisonStore)
    /\ ComparisonOnly

ComparisonPlay ==
    /\ StoreIdle
    /\ comparisonStore' = [comparisonStore EXCEPT !.isPlaying = TRUE]
    /\ ComparisonOnly

ComparisonStepForward ==
    /\ StoreIdle
    /\ comparisonStore' = comparisonStepForward(comparisonStore)
    /\ ComparisonOnly

ComparisonStepBackward ==
    /\ StoreIdle
    /\ comparisonStore' = comparisonStepBackward(comparisonStore)
    /\ ComparisonOnly

ComparisonJumpToStart ==
    /\ StoreIdle
    /\ comparisonStore' = comparisonJumpToStart(comparisonStore)
    /\ ComparisonOnly

ComparisonJumpToEnd ==
    /\ StoreIdle
    /\ comparisonStore' = comparisonJumpToEnd(comparisonStore)
    /\ ComparisonOnly

InitComparisonStore ==
    /\ comparisonStore = InitialComparisonStore
    /\ algorithmStore = <<>>
    /\ caller = <<>>
    /\ graphStore = <<>>
    /\ SomeSmallGraph({1})
    /\ params \in [startNodeId : {0, 1}, endNodeId : {0}]
    /\ StoreIdle
    /\ loc = <<>>
    /\ nodeStates = <<>>
    /\ edgeStates = <<>>
    /\ metrics = ZeroMetrics
    /\ steps = <<>>

NextComparisonStore ==
    \/ SelectAlgorithm1
    \/ SelectAlgorithm2
    \/ RunComparison
    \/ RunComparisonSecond
    \/ RunComparisonReturn
    \/ ResetComparison
    \/ ComparisonPlay
    \/ ComparisonStepForward
    \/ ComparisonStepBackward
    \/ ComparisonJumpToStart
    \/ ComparisonJumpToEnd
    \/ NextBFS
    \/ NextTopo

SpecComparisonStore == InitComparisonStore /\ [][NextComparisonStore]_vars

(* ---------- algorithms/index.ts: isAlgorithmValidForGraph -------------- *)
\* requiresDirected of each config: true, false, or null (works for both)
RequiresDirected(id) ==
    CASE id = "topological" -> "true"
      [] id \in {"kruskal", "prim", "connectedComponents"} -> "false"
      [] OTHER -> "null"

\* the `algorithms` array with what isAlgorithmValidForGraph reads of a config
Registry ==
    [k \in 1 .. Len(AlgorithmIds) |->
        [id |-> AlgorithmIds[k], requiresDirected |-> RequiresDirected(AlgorithmIds[k])]]

\* algorithms.find(a => a.id === id): <<the entry>>, or <<>> for undefined
getAlgorithm(id) ==
    LET found == {k \in 1 .. Len(Registry) : Registry[k].id = id}
    IN IF found = {} THEN <<>>
       ELSE <<Registry[CHOOSE k \in found : \A j \in found : k <= j]>>

\* the check written with !algo.requiresDirected in place of === false
validByTruthiness(algorithmId, g) ==
    LET algo == getAlgorithm(algorithmId)
    IN IF algo = <<>> THEN [valid |-> FALSE, reason |-> "Algorithm not found"]
       ELSE IF algo[1].requiresDirected = "true" /\ ~g.directed
       THEN [valid |-> FALSE, reason |-> "This algorithm requires a directed graph"]
       ELSE IF algo[1].requiresDirected # "true" /\ g.directed
       THEN [valid |-> FALSE, reason |-> "This algorithm requires an undirected graph"]
       ELSE [valid |-> TRUE]

isAlgorithmValidForGraph(algorithmId, g) ==
    LET algo == getAlgorithm(algorithmId)
    IN IF algo = <<>> THEN [valid |-> FALSE, reason |-> "Algorithm not found"]
       ELSE IF algo[1].requiresDirected = "true" /\ ~g.directed
       THEN [valid |-> FALSE, reason |-> "This algorithm requires a directed graph"]
       ELSE IF algo[1].requiresDirected = "false" /\ g.directed
       THEN [valid |-> FALSE, reason |-> "This algorithm requires an undirected graph"]
       ELSE [valid |-> TRUE]

\* a caller asks whether the algorithm `alg` may run on `graph`; the answer
\* is kept in loc.result
CheckValidity ==
    /\ pc = "start"
    /\ loc' = [result |-> isAlgorithmValidForGraph(alg, graph)]
    /\ pc' = "checked"
    /\ UNCHANGED <<env, alg, graph, params, nodeStates, edgeStates, metrics, steps>>

InitValidity ==
    /\ alg \in SelectableIds
    /\ SomeSmallGraph(0 .. MaxWeight)
    /\ params \in [startNodeId : {0, 1, graph.n + 1}, endNodeId : {0, graph.n}]
    /\ Idle

NextValidity == CheckValidity

SpecValidity == InitValidity /\ [][NextValidity]_vars

(* ------------- store/graphStore.ts: the edited graph and its history --- *)
\* The store's graph is [nodes, edges, directed]: nodes the sequence of the
\* node ids, edges the sequence of [id, source, target].  Ids are uuids; here
\* a new id is the least number no graph of the store holds.  Labels,
\* positions, weights and the selection are not carried: none of the
\* handlers below reads them.  history[historyIndex] of the source is
\* history[historyIndex + 1] here.
MAX_HISTORY == 20

MaxStoreNodes == 2

MaxStoreEdges == 2

MaxSession == 6

\* createEmptyGraph(), history: [], historyIndex: -1
InitialGraphStore ==
    [graph |-> [nodes |-> <<>>, edges |-> <<>>, directed |-> FALSE],
     history |-> <<>>,
     historyIndex |-> -1]

Elements(seq) == {seq[k] : k \in 1 .. Len(seq)}

\* the node ids and the edge ids of the graph and of the graphs of the history
NodeIdsInStore(st) ==
    Elements(st.graph.nodes) \cup UNION {Elements(st.history[k].nodes) : k \in 1 .. Len(st.history)}

EdgeIdsInStore(st) ==
    {e.id : e \in Elements(st.graph.edges)}
    \cup UNION {{e.id : e \in Elements(st.history[k].edges)} : k \in 1 .. Len(st.history)}

\* uuidv4(): an id that no node (edge) has
FreshId(used) == CHOOSE id \in 1 .. Cardinality(used) + 1 : id \notin used

\* a history that keeps every entry
keepAll(history) == history

\* if (newHistory.length > MAX_HISTORY) newHistory.shift()
dropOldest(history) == IF Len(history) > MAX_HISTORY THEN Tail(history) ELSE history

saveToHistory(st) ==
    LET newHistory == dropOldest(Append(SubSeq(st.history, 1, st.historyIndex + 1), st.graph))
    IN [st EXCEPT !.history = newHistory, !.historyIndex = Len(newHistory) - 1]

addNode(st) ==
    [saveToHistory(st) EXCEPT !.graph.nodes = Append(st.graph.nodes, FreshId(NodeIdsInStore(st)))]

removeNode(st, nodeId) ==
    [saveToHistory(st) EXCEPT
        !.graph.nodes = SelectSeq(st.graph.nodes, LAMBDA n : n # nodeId),
        !.graph.edges = SelectSeq(st.graph.edges,
                                  LAMBDA e : e.source # nodeId /\ e.target # nodeId)]

\* hasEdge(graph, source, target)
hasEdge(g, source, target) == getEdgeBetween(g, source, target) # 0

addEdge(st, source, target) ==
    IF hasEdge(st.graph, source, target) THEN st
    ELSE [saveToHistory(st) EXCEPT
             !.graph.edges = Append(st.graph.edges,
                                    [id |-> FreshId(EdgeIdsInStore(st)),
                                     source |-> source, target |-> target])]

removeEdge(st, edgeId) ==
    [saveToHistory(st) EXCEPT
        !.graph.edges = SelectSeq(st.graph.edges, LAMBDA e : e.id # edgeId)]

reverseEdgeDirection(st, edgeId) ==
    [saveToHistory(st) EXCEPT
        !.graph.edges = [k \in 1 .. Len(st.graph.edges) |->
                            LET e == st.graph.edges[k]
                            IN IF e.id = edgeId
                               THEN [e EXCEPT !.source = e.target, !.target = e.source]
                               ELSE e]]

setGraphDirected(st, directed) ==
    [saveToHistory(st) EXCEPT !.graph.directed = directed]

undo(st) ==
    IF st.historyIndex >= 0
    THEN [st EXCEPT !.graph = st.history[st.historyIndex + 1], !.historyIndex = @ - 1]
    ELSE st

redo(st) ==
    IF st.historyIndex < Len(st.history) - 1
    THEN [st EXCEPT !.graph = st.history[st.historyIndex + 2], !.historyIndex = @ + 1]
    ELSE st

\* a handler of the graph store touches nothing but the graph store
GraphStoreOnly == UNCHANGED <<algorithmStore, comparisonStore, caller, alg, graph, params, pc,
                              loc, nodeStates, edgeStates, metrics, steps>>

\* the canvas: a click with the addNode tool
AddNode ==
    /\ Len(graphStore.graph.nodes) < MaxStoreNodes
    /\ graphStore' = addNode(graphStore)
    /\ GraphStoreOnly

RemoveNode ==
    /\ \E nodeId \in Elements(graphStore.graph.nodes) :
           graphStore' = removeNode(graphStore, nodeId)
    /\ GraphStoreOnly

\* the canvas: a drag with the addEdge tool from one node to another one
AddEdge ==
    /\ Len(graphStore.graph.edges) < MaxStoreEdges
    /\ \E source, target \in Elements(graphStore.graph.nodes) :
           /\ source # target
           /\ graphStore' = addEdge(graphStore, source, target)
    /\ GraphStoreOnly

RemoveEdge ==
    /\ \E e \in Elements(graphStore.graph.edges) :
           graphStore' = removeEdge(graphStore, e.id)
    /\ GraphStoreOnly

ReverseEdgeDirection ==
    /\ \E e \in Elements(graphStore.graph.edges) :
           graphStore' = reverseEdgeDirection(graphStore, e.id)
    /\ GraphStoreOnly

SetGraphDirected(directed) ==
    /\ graphStore' = setGraphDirected(graphStore, directed)
    /\ GraphStoreOnly

Undo ==
    /\ graphStore' = undo(graphStore)
    /\ GraphStoreOnly

Redo ==
    /\ graphStore' = redo(graphStore)
    /\ GraphStoreOnly

InitGraphStore ==
    /\ graphStore = InitialGraphStore
    /\ algorithmStore = <<>>
    /\ comparisonStore = <<>>
    /\ caller = <<>>
    /\ alg = "none"
    /\ graph = [n |-> 0, edges |-> <<>>, directed |-> FALSE, x |-> <<>>]
    /\ params = [startNodeId |-> 0, endNodeId |-> 0]
    /\ pc = "idle"
    /\ loc = <<>>
    /\ nodeStates = <<>>
    /\ edgeStates = <<>>
    /\ metrics = ZeroMetrics
    /\ steps = <<>>

\* an editing session of up to MaxSession edits one after another
ShortSession == Len(graphStore.history) < MaxSession

NextGraphStore ==
    \/ ShortSession /\ AddNode
    \/ ShortSession /\ RemoveNode
    \/ ShortSession /\ AddEdge
    \/ ShortSession /\ RemoveEdge
    \/ ShortSession /\ ReverseEdgeDirection
    \/ ShortSession /\ \E directed \in BOOLEAN : SetGraphDirected(directed)
    \/ Undo
    \/ Redo

SpecGraphStore == InitGraphStore /\ [][NextGraphStore]_vars

\* the history length up to which an edit of a long session changes the graph
MaxChanging == 3

\* a session as long as one likes whose edits are all setGraphDirected: each
\* edit saves to the history, so that the history can fill up to MAX_HISTORY
\* and beyond; past the first MaxChanging entries the edits pass the value
\* the flag has, and the graphs in the history stay few
NextGraphHistory ==
    \/ SetGraphDirected(graphStore.graph.directed)
    \/ Len(graphStore.history) < MaxChanging /\ SetGraphDirected(~graphStore.graph.directed)
    \/ Undo
    \/ Redo

SpecGraphHistory == InitGraphStore /\ [][NextGraphHistory]_vars

(* ---------------------- store/graphStore.ts: computeDFS ---------------- *)
RECURSIVE computeDFSVisit(_, _, _), computeDFSEdges(_, _, _, _)
\* dfs(nodeId): order holds the nodes visited so far, in the order of
\* visited.add / order.push
computeDFSVisit(g, nodeId, order) ==
    IF Has(order, nodeId) THEN order
    ELSE computeDFSEdges(g, nodeId, 1, Append(order, nodeId))

\* for (const edge of graph.edges), from the k-th edge on
computeDFSEdges(g, nodeId, k, order) ==
    IF k > Len(g.edges) THEN order
    ELSE LET edge == g.edges[k]
             neighbor == IF edge.source = nodeId THEN edge.target
                         ELSE IF ~g.directed /\ edge.target = nodeId THEN edge.source
                         ELSE 0
         IN computeDFSEdges(g, nodeId, k + 1,
                            IF neighbor # 0 /\ ~Has(order, neighbor)
                            THEN computeDFSVisit(g, neighbor, order) ELSE order)

computeDFS(g, startId) == computeDFSVisit(g, startId, <<>>)

(* ------------------ reference definitions for the claims --------------- *)
\* <<u, v, w>>: one hop from u to v of weight w, honoring directedness
Arcs(g) ==
    {<<g.edges[i].source, g.edges[i].target, g.edges[i].weight>> : i \in EdgeIds(g)} \cup
    (IF g.directed THEN {}
     ELSE {<<g.edges[i].target, g.edges[i].source, g.edges[i].weight>> : i \in EdgeIds(g)})

SetMin(S) == CHOOSE x \in S : \A y \in S : x <= y

\* least weight of a walk of at most k hops from s to every node (Bellman-Ford)
RECURSIVE WalkDist(_, _, _)
WalkDist(g, s, k) ==
    IF k = 0 THEN [v \in NodeIds(g) |-> IF v = s THEN 0 ELSE Infinity]
    ELSE LET d == WalkDist(g, s, k - 1)
         IN [v \in NodeIds(g) |->
               SetMin({d[v]} \cup {d[a[1]] + a[3] : a \in {b \in Arcs(g) : b[2] = v /\ d[b[1]] # Infinity}})]

ShortestDistance(g, s, t) == WalkDist(g, s, g.n)[t]

Reachable(g, s) == {v \in NodeIds(g) : ShortestDistance(g, s, v) # Infinity}

IsPath(g, path, s, t) ==
    /\ Len(path) >= 1
    /\ path[1] = s
    /\ path[Len(path)] = t
    /\ \A i \in 2 .. Len(path) : \E a \in Arcs(g) : a[1] = path[i - 1] /\ a[2] = path[i]

LastStep == steps[Len(steps)]

ValidStart == params.startNodeId \in NodeIds(graph)

(* ------------------------------ claims --------------------------------- *)
\* C1: with non-negative weights, a start node of the graph and a target
\* reachable from it, executeDijkstra ends with a 'Path Found' step whose path
\* is a start-to-target path and whose distance is the least total weight of
\* a start-to-target path.
C1_DijkstraShortestPath ==
    (alg = "dijkstra" /\ pc = "done" /\ ValidStart /\ params.endNodeId \in Reachable(graph, params.startNodeId))
    => /\ steps # <<>>
       /\ LastStep.currentOperation = <<"Path Found">>
       /\ IsPath(graph, LastStep.dataStructures.path, params.startNodeId, params.endNodeId)
       /\ LastStep.description[3] =
            ShortestDistance(graph, params.startNodeId, params.endNodeId)

\* nodes reachable from a node of S by zero or more hops along the arcs A
RECURSIVE ClosureA(_, _)
ClosureA(A, S) ==
    LET T == S \cup {a[2] : a \in {b \in A : b[1] \in S}}
    IN IF T = S THEN S ELSE ClosureA(A, T)

Closure(g, S) == ClosureA(Arcs(g), S)

\* a directed cycle: some node is reachable from itself by at least one hop
HasDirectedCycle(g) ==
    \E v \in NodeIds(g) : v \in Closure(g, {a[2] : a \in {b \in Arcs(g) : b[1] = v}})

\* the connected components of the nodes under the edges I, taken as undirected
ComponentsOf(g, I) ==
    LET A == {<<g.edges[i].source, g.edges[i].target>> : i \in I} \cup
             {<<g.edges[i].target, g.edges[i].source>> : i \in I}
    IN {ClosureA(A, {v}) : v \in NodeIds(g)}

Components(g) == ComponentsOf(g, EdgeIds(g))

\* an undirected graph without a cycle: a forest has |V| - #components edges
IsForest(g) == Len(g.edges) = g.n - Cardinality(Components(g))

HasStep(op) == \E k \in 1 .. Len(steps) : steps[k].currentOperation = op

\* C2: on an undirected graph without a cycle executeCycleDetection ends with
\* hasCycle = false and emits no 'Cycle Found' step.
C2_ForestHasNoCycle ==
    (alg = "cycleDetection" /\ pc = "done" /\ ~graph.directed /\ IsForest(graph))
    => /\ LastStep.dataStructures.hasCycle = FALSE
       /\ ~HasStep(<<"Cycle Found">>)

\* C3: on a directed graph the final step of executeCycleDetection reports
\* hasCycle = true exactly when the graph has a directed cycle.
C3_DirectedCycleIff ==
    (alg = "cycleDetection" /\ pc = "done" /\ graph.directed)
    => (LastStep.dataStructures.hasCycle = HasDirectedCycle(graph))

\* a directed graph with a cycle has been processed to the end
C3_Witness ==
    /\ alg = "cycleDetection" /\ pc = "done" /\ graph.directed
    /\ HasDirectedCycle(graph)
    /\ LastStep.dataStructures.hasCycle = TRUE
    /\ Len(graph.edges) = 3

\* C4: in an executeBFS run, once a step shows an edge in_solution no later
\* step of the run shows that edge rejected.
C4_BFSSolutionEdgeNeverRejected ==
    alg = "bfs" =>
        \A j \in 1 .. Len(steps) : \A k \in 1 .. j : \A e \in EdgeIds(graph) :
            steps[k].edgeStates[e] = IN_SOLUTION => steps[j].edgeStates[e] # REJECTED

InSolutionNodes(step) == {v \in NodeIds(graph) : step.nodeStates[v] = IN_SOLUTION}

\* C8: executeBFS and executeDFS with a start node of the graph end with
\* exactly the nodes reachable from the start in state in_solution.
C8_TraversalReachesComponent ==
    (alg \in {"bfs", "dfs"} /\ pc = "done" /\ ValidStart)
    => InSolutionNodes(LastStep) = Closure(graph, {params.startNodeId})

\* a run on a disconnected undirected graph whose start component has two nodes
C8_Witness ==
    /\ alg \in {"bfs", "dfs"} /\ pc = "done" /\ ValidStart
    /\ ~graph.directed
    /\ graph.n = 3
    /\ Cardinality(InSolutionNodes(LastStep)) = 2

\* the edge sets that span every component of the graph without a cycle
SpanningForests(g) ==
    {I \in SUBSET EdgeIds(g) :
        /\ ComponentsOf(g, I) = Components(g)
        /\ Cardinality(I) = g.n - Cardinality(Components(g))}

RECURSIVE SumWeights(_, _)
SumWeights(g, I) ==
    IF I = {} THEN 0
    ELSE LET i == CHOOSE x \in I : TRUE IN g.edges[i].weight + SumWeights(g, I \ {i})

MinimumSpanningWeight(g) == SetMin({SumWeights(g, I) : I \in SpanningForests(g)})

\* C5: on an undirected graph the total weight in the final step of
\* executeKruskal is the weight of a minimum spanning forest of the graph.
C5_KruskalMinimumWeight ==
    (alg = "kruskal" /\ pc = "done" /\ ~graph.directed)
    => /\ LastStep.currentOperation = <<"Complete">>
       /\ LastStep.dataStructures.totalWeight = MinimumSpanningWeight(graph)

\* a run on a triangle with unequal weights: one edge had to be left out
C5_Witness ==
    /\ alg = "kruskal" /\ pc = "done" /\ ~graph.directed
    /\ graph.n = 3 /\ Len(graph.edges) = 3
    /\ Cardinality(Components(graph)) = 1
    /\ LastStep.dataStructures.edgeCount = 2
    /\ \E i, j \in EdgeIds(graph) : graph.edges[i].weight # graph.edges[j].weight

Position(seq, x) == CHOOSE k \in 1 .. Len(seq) : seq[k] = x

\* C6: on a directed acyclic graph executeTopologicalSort ends with a
\* completion step whose result holds every node once, each edge's source
\* before its target.
C6_TopoOrderOnDag ==
    (alg = "topological" /\ pc = "done" /\ graph.directed /\ ~HasDirectedCycle(graph))
    => /\ LastStep.currentOperation = <<"Complete">>
       /\ LET result == LastStep.dataStructures.result
          IN /\ Len(result) = graph.n
             /\ \A v \in NodeIds(graph) : Cardinality({k \in 1 .. Len(result) : result[k] = v}) = 1
             /\ \A i \in EdgeIds(graph) :
                  Position(result, graph.edges[i].source) < Position(result, graph.edges[i].target)

\* a completed sort of a DAG whose three edges constrain the order
C6_Witness ==
    /\ alg = "topological" /\ pc = "done" /\ graph.directed /\ ~HasDirectedCycle(graph)
    /\ Len(graph.edges) = 3
    /\ LastStep.currentOperation = <<"Complete">>
    /\ LastStep.dataStructures.result # <<1, 2, 3>>

\* C7: on a directed graph executeTopologicalSort ends with a 'Cycle Detected'
\* step, its result shorter than |V|, exactly when the graph has a directed cycle.
C7_TopoCycleIff ==
    (alg = "topological" /\ pc = "done" /\ graph.directed)
    => ((LastStep.currentOperation = <<"Cycle Detected">>
           /\ Len(LastStep.dataStructures.result) < graph.n)
        <=> HasDirectedCycle(graph))

\* a run that ended with 'Cycle Detected' after ordering part of the nodes
C7_Witness ==
    /\ alg = "topological" /\ pc = "done" /\ graph.directed
    /\ HasDirectedCycle(graph)
    /\ LastStep.currentOperation = <<"Cycle Detected">>
    /\ Len(LastStep.dataStructures.result) >= 1

\* C9: executeBFS, executeDFS, executeDijkstra, executeAStar and executePrim
\* return an empty step sequence whenever startNodeId is absent or is not the
\* id of a node of the graph.
C9_NoStepsWithoutStartNode ==
    (alg \in StartNodeExecutors /\ pc = "done" /\ ~ValidStart) => steps = <<>>

\* C10: with every node at the same position (a heuristic of zero) and a goal
\* reachable from the start, executeAStar ends with a 'Path Found' step whose
\* cost is the least total weight of a start-to-goal path.
C10_AStarZeroHeuristicOptimal ==
    (/\ alg = "astar" /\ pc = "done" /\ ValidStart
     /\ \A v \in NodeIds(graph) : graph.x[v] = graph.x[1]
     /\ params.endNodeId \in Reachable(graph, params.startNodeId))
    => /\ steps # <<>>
       /\ LastStep.currentOperation = <<"Path Found">>
       /\ LastStep.description[3] =
            ShortestDistance(graph, params.startNodeId, params.endNodeId)

\* C11: on a connected undirected graph with a start node of the graph, the
\* total weight in the final step of executePrim is the weight of a minimum
\* spanning tree (the total executeKruskal reports for the graph).
C11_PrimMinimumWeight ==
    (/\ alg = "prim" /\ pc = "done" /\ ValidStart
     /\ ~graph.directed /\ Cardinality(Components(graph)) = 1)
    => /\ LastStep.currentOperation = <<"Complete">>
       /\ LastStep.dataStructures.totalWeight = MinimumSpanningWeight(graph)

\* what a reader of steps[k] finds in its nodeStates, edgeStates and metrics
\* now: the contents stored at the push, unless the field refers to the
\* executor's own object, whose contents are the current ones
StepView(k) ==
    [nodeStates |-> IF steps[k].objects.nodeStates = LiveObject
                    THEN nodeStates ELSE steps[k].nodeStates,
     edgeStates |-> IF steps[k].objects.edgeStates = LiveObject
                    THEN edgeStates ELSE steps[k].edgeStates,
     metrics |-> IF steps[k].objects.metrics = LiveObject
                 THEN metrics ELSE steps[k].metrics]

\* no two steps share an object, and no step holds the executor's own
NoSharedObjects ==
    \A j \in 1 .. Len(steps) :
        /\ steps[j].objects.nodeStates # LiveObject
        /\ steps[j].objects.edgeStates # LiveObject
        /\ steps[j].objects.metrics # LiveObject
        /\ \A k \in 1 .. Len(steps) :
               j # k => /\ steps[j].objects.nodeStates # steps[k].objects.nodeStates
                        /\ steps[j].objects.edgeStates # steps[k].objects.edgeStates
                        /\ steps[j].objects.metrics # steps[k].objects.metrics

\* C12: in every executor, a step that has been emitted shows the same
\* nodeStates, edgeStates and metrics after every further move of the
\* executor, and no step shares one of these three objects with another step
\* or with the executor's live state.
C12_SnapshotsIndependent ==
    [][/\ \A k \in 1 .. Len(steps) : StepView(k)' = StepView(k)
       /\ NoSharedObjects']_vars

\* the live maps and metrics have all moved on since the first step was pushed
C12_Witness ==
    /\ Len(steps) >= 2
    /\ steps[1].nodeStates # nodeStates
    /\ steps[1].edgeStates # edgeStates
    /\ steps[1].metrics # metrics
    /\ steps[1].objects.nodeStates # LiveObject

\* C13: in every executor, every emitted step's nodeStates has an entry for
\* every node id of the graph and its edgeStates an entry for every edge id
\* (the graphs of the model have no edge to a node that does not exist).
C13_StatesCoverGraph ==
    \A k \in 1 .. Len(steps) :
        /\ 1 .. graph.n \subseteq DOMAIN steps[k].nodeStates
        /\ 1 .. Len(graph.edges) \subseteq DOMAIN steps[k].edgeStates

\* an executor has returned steps for a graph with several nodes and edges
C13_Witness ==
    /\ pc = "done"
    /\ Len(steps) >= 2
    /\ graph.n = MaxNodes
    /\ Len(graph.edges) >= 2

\* C14: in the step sequence of any executor, each of nodesVisited,
\* edgesExamined, operationsCount and comparisons of a step is at least its
\* value in the step before.
C14_MetricsNonDecreasing ==
    \A k \in 1 .. Len(steps) - 1 :
        /\ steps[k].metrics.nodesVisited <= steps[k + 1].metrics.nodesVisited
        /\ steps[k].metrics.edgesExamined <= steps[k + 1].metrics.edgesExamined
        /\ steps[k].metrics.operationsCount <= steps[k + 1].metrics.operationsCount
        /\ steps[k].metrics.comparisons <= steps[k + 1].metrics.comparisons

\* a returned sequence in which all four counters have grown
C14_Witness ==
    /\ pc = "done"
    /\ Len(steps) >= 2
    /\ steps[1].metrics.nodesVisited < LastStep.metrics.nodesVisited
    /\ steps[1].metrics.edgesExamined < LastStep.metrics.edgesExamined
    /\ steps[1].metrics.operationsCount < LastStep.metrics.operationsCount
    /\ steps[1].metrics.comparisons < LastStep.metrics.comparisons

\* C16: no executor changes the graph it is given: the nodes, the edges (their
\* order, sources, targets and weights) and the directed flag are after every
\* move of every executor what they were before it.
C16_GraphUnchanged == [][graph' = graph]_vars

\* executeKruskal has returned for a graph whose edges it had to reorder
C16_Witness ==
    /\ alg = "kruskal"
    /\ pc = "done"
    /\ loc.sortedEdges # [k \in 1 .. Len(graph.edges) |-> k]

\* what the claim compares of a step sequence
StepContents(s) ==
    [k \in 1 .. Len(s) |->
        [description |-> s[k].description,
         pseudocodeLine |-> s[k].pseudocodeLine,
         nodeStates |-> s[k].nodeStates,
         edgeStates |-> s[k].edgeStates,
         dataStructures |-> s[k].dataStructures,
         metrics |-> s[k].metrics]]

\* C15: with the graph and the params fixed, a later call of an executor
\* returns the step sequence its first call returned (same length, and at
\* every index the same description, pseudocodeLine, nodeStates, edgeStates,
\* dataStructures and metrics), also when another executor ran in between.
C15_Deterministic ==
    (pc = "done" /\ caller # <<>> /\ caller.first.id = alg)
    => StepContents(steps) = StepContents(caller.first.steps)

\* the executor has returned several steps a second time, after another one ran
C15_Witness ==
    /\ pc = "done"
    /\ caller # <<>>
    /\ caller.between
    /\ caller.first.id = alg
    /\ Len(steps) >= 3
    /\ LastStep.metrics # ZeroMetrics

\* C17: in the algorithm store, after any sequence of selectAlgorithm,
\* runAlgorithm, resetExecution, stepForward, stepBackward, jumpToStart,
\* jumpToEnd and applyStep with any integer index, currentStepIndex lies in
\* [-1, steps.length - 1].
C17_CursorInRange ==
    /\ algorithmStore.currentStepIndex >= -1
    /\ algorithmStore.currentStepIndex <= Len(algorithmStore.steps) - 1

\* the cursor stands on the last of several steps
C17_Witness ==
    /\ Len(algorithmStore.steps) >= 3
    /\ algorithmStore.currentStepIndex = Len(algorithmStore.steps) - 1
    /\ algorithmStore.nodeStates # <<>>

\* what the canvas shows of the algorithm store
Visible(st) ==
    [currentStepIndex |-> st.currentStepIndex,
     nodeStates |-> st.nodeStates,
     edgeStates |-> st.edgeStates]

\* C19: in the algorithm store, for every valid index k, applying step k,
\* then jumpToStart, then applying step k again leaves the same
\* currentStepIndex, nodeStates and edgeStates as applying step k directly.
C19_ReapplyAfterJumpToStart ==
    \A k \in 0 .. Len(algorithmStore.steps) - 1 :
        LET direct == applyStep(algorithmStore, k)
        IN Visible(applyStep(jumpToStart(direct), k)) = Visible(direct)

\* a step other than the first is applied, and jumpToStart would clear what
\* it shows
C19_Witness ==
    /\ algorithmStore.currentStepIndex >= 1
    /\ algorithmStore.nodeStates = algorithmStore.steps[algorithmStore.currentStepIndex + 1].nodeStates
    /\ algorithmStore.edgeStates # <<>>
    /\ Visible(jumpToStart(algorithmStore)) # Visible(algorithmStore)
    /\ algorithmStore.steps[1].nodeStates # algorithmStore.nodeStates

\* C18: in the comparison store, after any sequence of runComparison,
\* resetComparison, stepForward, stepBackward, jumpToStart and jumpToEnd, each
\* of currentStep1 and currentStep2 lies in [-1, length - 1] of its own step
\* sequence, also when an executor returned no step.
C18_ComparisonCursorsInRange ==
    /\ comparisonStore.currentStep1 >= -1
    /\ comparisonStore.currentStep1 <= Len(comparisonStore.steps1) - 1
    /\ comparisonStore.currentStep2 >= -1
    /\ comparisonStore.currentStep2 <= Len(comparisonStore.steps2) - 1

\* C20: isAlgorithmValidForGraph(id, graph) returns valid = false, with a
\* reason, exactly when id is not registered, or the algorithm requires a
\* directed graph and the graph is undirected, or it requires an undirected
\* graph and the graph is directed; otherwise it returns valid = true,
\* whatever the nodes, the edges and the start and end parameters are.
C20_ValidityByDirection ==
    pc = "checked" =>
        LET registered == \E k \in 1 .. Len(AlgorithmIds) : AlgorithmIds[k] = alg
            rejected == \/ ~registered
                        \/ RequiresDirected(alg) = "true" /\ ~graph.directed
                        \/ RequiresDirected(alg) = "false" /\ graph.directed
        IN /\ loc.result.valid = ~rejected
           /\ ~loc.result.valid => "reason" \in DOMAIN loc.result

\* a registered algorithm that accepts both kinds of graph was asked about a
\* directed graph with edges and a start node that does not exist
C20_Witness ==
    /\ pc = "checked"
    /\ RequiresDirected(alg) = "null"
    /\ alg # "unknown"
    /\ alg # NoAlgorithm
    /\ graph.directed
    /\ Len(graph.edges) >= 1
    /\ params.startNodeId = graph.n + 1
    /\ loc.result.valid

\* C21: in executeDijkstra (the weights of the model are non-negative) the
\* recorded distance of a node is replaced only by a strictly smaller one, so
\* from one step to the next no node's recorded distance increases.
C21_DijkstraDistanceNeverIncreases ==
    alg = "dijkstra" =>
        \A k \in 1 .. Len(steps) - 1 :
            \A v \in NodeIds(graph) :
                steps[k + 1].dataStructures.distances[v] <= steps[k].dataStructures.distances[v]

\* the positions of the steps whose currentOperation starts with the word
StepsOf(word) == {k \in 1 .. Len(steps) : steps[k].currentOperation[1] = word}

\* C22: in executeDijkstra with a target, the step after the 'Process' step
\* that extracts the target is the 'Path Found' step and it is the last step:
\* no relaxation and no further extraction follows, whatever the queue holds.
C22_DijkstraStopsAtTarget ==
    (alg = "dijkstra" /\ params.endNodeId # 0) =>
        /\ \A k \in 1 .. Len(steps) :
               steps[k].currentOperation = <<"Process", params.endNodeId>>
               => /\ pc = "done"
                  /\ k + 1 = Len(steps)
                  /\ steps[k + 1].currentOperation = <<"Path Found">>

\* the target was extracted while the queue still held an entry
C22_Witness ==
    /\ alg = "dijkstra"
    /\ pc = "done"
    /\ Len(steps) >= 4
    /\ LastStep.currentOperation = <<"Path Found">>
    /\ loc.pq # <<>>

\* the node ids of the 'Visit' steps, in the order of the steps
VisitOrder ==
    LET visits == SelectSeq(steps, LAMBDA st : st.currentOperation[1] = "Visit")
    IN [k \in 1 .. Len(visits) |-> visits[k].currentOperation[2]]

\* C23: for every graph and start node of it, the order in which executeDFS
\* marks nodes visited (its 'Visit' steps) is the preorder of the recursive
\* depth-first search computeDFS from the same start, which takes the
\* neighbors in edge order.
C23_DFSVisitOrderIsPreorder ==
    (alg = "dfs" /\ pc = "done" /\ ValidStart) =>
        /\ VisitOrder = computeDFS(graph, params.startNodeId)
        /\ loc.visited = VisitOrder

\* a run that visited three nodes and popped an entry of a node already visited
C23_Witness ==
    /\ alg = "dfs"
    /\ pc = "done"
    /\ ValidStart
    /\ Len(VisitOrder) = 3
    /\ StepsOf("Skip") # {}

\* no two edges join the same pair of nodes, in either direction
NoParallelEdges(g) ==
    \A i, j \in EdgeIds(g) :
        i # j => {g.edges[i].source, g.edges[i].target} # {g.edges[j].source, g.edges[j].target}

InSolutionEdges(step) == {e \in EdgeIds(graph) : step.edgeStates[e] = IN_SOLUTION}

\* C24: in the final step of executeDFS on a graph without parallel edges or
\* self-loops the in_solution edges form a tree over the visited nodes: they
\* are one fewer than the visited nodes and they connect the visited nodes.
C24_DFSSolutionEdgesFormTree ==
    (alg = "dfs" /\ pc = "done" /\ ValidStart /\ NoParallelEdges(graph)) =>
        LET I == InSolutionEdges(LastStep)
            visited == {loc.visited[k] : k \in 1 .. Len(loc.visited)}
        IN /\ Cardinality(I) = Cardinality(visited) - 1
           /\ \E C \in ComponentsOf(graph, I) : C = visited

\* the number of entries of the open set that hold the node
OpenEntries(l, v) == Cardinality({k \in 1 .. Len(l.openSet) : l.openSet[k].value = v})

\* the nodes some 'Process' step has dequeued
Dequeued(s) == {s[k].currentOperation[2] : k \in {j \in 1 .. Len(s) : s[j].currentOperation[1] = "Process"}}

\* C25: in executeAStar a node enters the open set only when it is neither in
\* the open set nor in the closed set nor dequeued before, it leaves the open
\* set only by being dequeued, it is dequeued at most once, and a node of the
\* closed set is never checked as a neighbor: every node is pushed at most
\* once and dequeued at most once per run.
C25_AStarPushesAndDequeuesOnce ==
    [][(alg = "astar" /\ pc \in {"loop", "neighbors"}) =>
          LET new == Len(steps) + 1 .. Len(steps')
          IN \A v \in NodeIds(graph) :
                /\ OpenEntries(loc', v) <= 1
                /\ OpenEntries(loc', v) > OpenEntries(loc, v)
                   => /\ OpenEntries(loc, v) = 0
                      /\ v \notin loc.closedSet
                      /\ v \notin Dequeued(steps)
                /\ OpenEntries(loc', v) < OpenEntries(loc, v) => v \in Dequeued(steps')
                /\ \A k \in new :
                      /\ steps'[k].currentOperation = <<"Process", v>> => v \notin Dequeued(steps)
                      /\ steps'[k].currentOperation = <<"Check", v>> => v \notin loc.closedSet
      ]_vars

\* a run in which a queued node was improved a second time and two nodes
\* were closed
C25_Witness ==
    /\ alg = "astar"
    /\ pc \in {"loop", "neighbors", "done"}
    /\ loc # <<>>
    /\ Cardinality(loc.closedSet) >= 2
    /\ \E v \in NodeIds(graph) :
          Cardinality({k \in StepsOf("Update") : steps[k].currentOperation[2] = v}) >= 2

\* the edge a 'Check edge' step shows as examined
ExaminedEdge(step) == CHOOSE e \in EdgeIds(graph) : step.edgeStates[e] = EXAMINING

\* the two nodes are joined by a path of edges of I
ConnectedBy(g, I, u, v) == \E C \in ComponentsOf(g, I) : u \in C /\ v \in C

\* C26: in executeKruskal the step after a 'Check edge' step rejects the
\* examined edge exactly when its endpoints are already connected by the
\* edges accepted before, and accepts it otherwise; in every step the
\* accepted (in_solution) edges are acyclic.
C26_KruskalRejectsExactlyCycleEdges ==
    alg = "kruskal" =>
        \A k \in 1 .. Len(steps) :
            /\ LET I == InSolutionEdges(steps[k])
               IN Cardinality(I) = graph.n - Cardinality(ComponentsOf(graph, I))
            /\ steps[k].currentOperation = <<"Check edge">> =>
                  /\ k < Len(steps)
                  /\ LET e == ExaminedEdge(steps[k])
                         I == InSolutionEdges(steps[k])
                         connected == ConnectedBy(graph, I, graph.edges[e].source, graph.edges[e].target)
                     IN /\ steps[k].edgeStates[e] = EXAMINING
                        /\ steps[k + 1].currentOperation =
                               IF connected THEN <<"Reject edge">> ELSE <<"Add to MST">>
                        /\ steps[k + 1].edgeStates[e] =
                               IF connected THEN REJECTED ELSE IN_SOLUTION
                        /\ InSolutionEdges(steps[k + 1]) = IF connected THEN I ELSE I \cup {e}

\* a run that rejected an edge between two accepted ones
C26_Witness ==
    /\ alg = "kruskal"
    /\ pc = "done"
    /\ HasStep(<<"Reject edge">>)
    /\ Len(loc.mstEdges) = 2

C28_CycleFoundEndsSearch ==
    alg = "cycleDetection" =>
        \A k \in 1 .. Len(steps) :
            steps[k].currentOperation = <<"Cycle Found">> =>
                /\ pc \in {"final", "done"}
                /\ k < Len(steps) =>
                      /\ pc = "done"
                      /\ k + 1 = Len(steps)
                      /\ steps[k + 1].currentOperation = <<"Complete - Cycle Found">>
                      /\ steps[k + 1].nodeStates = steps[k].nodeStates
                      /\ steps[k + 1].edgeStates = steps[k].edgeStates
                      /\ steps[k + 1].metrics = steps[k].metrics

\* a cycle found two calls deep, with a neighbor of an active call not yet
\* checked and a root not yet tried
C28_Witness ==
    /\ alg = "cycleDetection"
    /\ pc = "done"
    /\ HasStep(<<"Cycle Found">>)
    /\ Len(loc.stack) >= 2
    /\ \E d \in 1 .. Len(loc.stack) : loc.stack[d].i <= Len(loc.adjList[loc.stack[d].nodeId])
    /\ \E v \in NodeIds(graph) : loc.color[v] = WHITE

\* component.get(nodeId) in the final step's components
ComponentIdOf(components, v) ==
    components[CHOOSE k \in 1 .. Len(components) : components[k].nodeId = v].compId

\* C29: for every undirected graph the final componentCount of
\* executeConnectedComponents is the number of connected components of the
\* graph, every node has a component id, and two nodes have the same id
\* exactly when a path joins them.
C29_ComponentsAreTheConnectedComponents ==
    (alg = "connectedComponents" /\ pc = "done" /\ ~graph.directed) =>
        LET components == LastStep.dataStructures.components
        IN /\ LastStep.currentOperation = <<"Complete">>
           /\ LastStep.dataStructures.componentCount = Cardinality(Components(graph))
           /\ \A v \in NodeIds(graph) :
                 Cardinality({k \in 1 .. Len(components) : components[k].nodeId = v}) = 1
           /\ \A u, v \in NodeIds(graph) :
                 (ComponentIdOf(components, u) = ComponentIdOf(components, v))
                 = ConnectedBy(graph, EdgeIds(graph), u, v)

\* a finished run on an undirected graph of three nodes and two components,
\* one of its edges written from the higher node to the lower
C29_Witness ==
    /\ alg = "connectedComponents"
    /\ pc = "done"
    /\ ~graph.directed
    /\ graph.n = 3
    /\ LastStep.dataStructures.componentCount = 2
    /\ \E e \in EdgeIds(graph) : graph.edges[e].source > graph.edges[e].target

\* the node ids of the 'Dequeue' steps, in the order of the steps
DequeueOrder ==
    LET dequeues == SelectSeq(steps, LAMBDA st : st.currentOperation[1] = "Dequeue")
    IN [k \in 1 .. Len(dequeues) |-> dequeues[k].currentOperation[2]]

\* the least number of edges of a walk from s to v
HopDistance(g, s, v) ==
    ShortestDistance([g EXCEPT !.edges = [i \in EdgeIds(g) |-> [g.edges[i] EXCEPT !.weight = 1]]], s, v)

\* C30: executeBFS with a start node of the graph dequeues every node
\* reachable from the start exactly once and no other node, in non-decreasing
\* hop distance from the start, and in the order in which the nodes were
\* enqueued (first in, first out).
C30_BFSDequeuesByHopDistance ==
    (alg = "bfs" /\ ValidStart /\ pc # "start") =>
        /\ \A j, k \in 1 .. Len(DequeueOrder) :
              /\ j < k => DequeueOrder[j] # DequeueOrder[k]
              /\ j <= k => HopDistance(graph, params.startNodeId, DequeueOrder[j])
                           <= HopDistance(graph, params.startNodeId, DequeueOrder[k])
        /\ DequeueOrder = SubSeq(loc.visited, 1, Len(DequeueOrder))
        /\ pc = "done" =>
              {DequeueOrder[k] : k \in 1 .. Len(DequeueOrder)} = Closure(graph, {params.startNodeId})

\* a finished run that dequeued three nodes, two of them waiting in the
\* queue at the same time
C30_Witness ==
    /\ alg = "bfs"
    /\ pc = "done"
    /\ ValidStart
    /\ Len(DequeueOrder) = 3
    /\ \E k \in 1 .. Len(steps) : Len(steps[k].dataStructures.queue) = 2

\* the place of a node state in unvisited, visiting, current, visited, in_solution
StateRank(state) ==
    CASE state = UNVISITED -> 0
      [] state = VISITING -> 1
      [] state = CURRENT -> 2
      [] state = VISITED -> 3
      [] state = IN_SOLUTION -> 4
      [] OTHER -> -1

\* C31: across the steps of an executeBFS run every node's state is one of
\* unvisited, visiting, current, visited, in_solution and from one step to the
\* next it stays or moves forward in that order, never back.
C31_BFSNodeStatesMoveForward ==
    alg = "bfs" =>
        \A k \in 1 .. Len(steps) :
            \A v \in NodeIds(graph) :
                /\ StateRank(steps[k].nodeStates[v]) >= 0
                /\ k < Len(steps) =>
                      StateRank(steps[k].nodeStates[v]) <= StateRank(steps[k + 1].nodeStates[v])

\* a finished run whose steps show one node in each of the five states
C31_Witness ==
    /\ alg = "bfs"
    /\ pc = "done"
    /\ ValidStart
    /\ \E v \in NodeIds(graph) :
          \A r \in 0 .. 4 : \E k \in 1 .. Len(steps) : StateRank(steps[k].nodeStates[v]) = r

\* the sequence without its p-th entry
Without(seq, p) == SubSeq(seq, 1, p - 1) \o SubSeq(seq, p + 1, Len(seq))

\* C32: in executeDijkstra the queue is kept in non-decreasing priority, an
\* enqueue puts the new entry behind every entry of lesser or equal priority
\* and leaves the order of the others as it was, and a dequeue takes the
\* first entry: every dequeue returns an entry of minimum priority and, among
\* those of equal priority, the one enqueued earliest.
C32_DijkstraDequeuesMinimumEarliest ==
    [][(alg = "dijkstra" /\ pc \in {"loop", "neighbors"}) =>
          LET pq == loc.pq
              next == loc'.pq
          IN /\ \A j \in 1 .. Len(next) - 1 : next[j].priority <= next[j + 1].priority
             /\ Len(next) > Len(pq) =>
                   \E p \in 1 .. Len(next) :
                       /\ Without(next, p) = pq
                       /\ \A j \in 1 .. p - 1 : next[j].priority <= next[p].priority
                       /\ \A j \in p + 1 .. Len(next) : next[p].priority < next[j].priority
             /\ Len(next) < Len(pq) =>
                   /\ next = Tail(pq)
                   /\ \A j \in 1 .. Len(pq) : pq[1].priority <= pq[j].priority
                   /\ \A k \in Len(steps) + 1 .. Len(steps') :
                         steps'[k].currentOperation[1] = "Process" =>
                             steps'[k].description = <<"Extract minimum", pq[1].value, pq[1].priority>>
             /\ Len(next) = Len(pq) => next = pq
      ]_vars

\* a 'Process' step that took an entry while an entry of the same priority,
\* for another node, stayed in the queue
C32_Witness ==
    /\ alg = "dijkstra"
    /\ \E k \in StepsOf("Process") :
          /\ steps[k].dataStructures.priorityQueue # <<>>
          /\ steps[k].dataStructures.priorityQueue[1].priority = steps[k].description[3]
          /\ steps[k].dataStructures.priorityQueue[1].value # steps[k].description[2]

\* the cursor of the algorithm store is on the last step
CursorAtEnd == algorithmStore.currentStepIndex = Len(algorithmStore.steps) - 1

\* C33: in the algorithm store with a non-empty step sequence, when isPlaying
\* is true and only the timer's ticks and the playback effect act, the cursor
\* eventually is on the last step with isPlaying false; with the cursor on
\* the last step a stepForward leaves the cursor where it is.
C33_PlaybackRunsToTheEnd ==
    /\ (algorithmStore.isPlaying /\ Len(algorithmStore.steps) > 0)
       ~> (CursorAtEnd /\ ~algorithmStore.isPlaying)
    /\ [](CursorAtEnd =>
            stepForward(algorithmStore).currentStepIndex = algorithmStore.currentStepIndex)

\* playing, with steps, the cursor still before the first of at least three
C33_Witness ==
    /\ algorithmStore.isPlaying
    /\ Len(algorithmStore.steps) >= 3
    /\ algorithmStore.currentStepIndex = -1

\* C34: in the algorithm store, under any interleaving of the timer's ticks
\* with the user's actions, the displayed nodeStates and edgeStates are those
\* of steps[currentStepIndex] whenever currentStepIndex >= 0 and are empty
\* whenever currentStepIndex = -1.
C34_DisplayFollowsCursor ==
    LET st == algorithmStore
    IN /\ st.currentStepIndex >= 0 =>
             /\ st.currentStepIndex < Len(st.steps)
             /\ st.nodeStates = st.steps[st.currentStepIndex + 1].nodeStates
             /\ st.edgeStates = st.steps[st.currentStepIndex + 1].edgeStates
       /\ st.currentStepIndex = -1 =>
             /\ st.nodeStates = <<>>
             /\ st.edgeStates = <<>>

\* the playback is running and has moved the display past the first step,
\* whose node states differ from the ones displayed
C34_Witness ==
    /\ algorithmStore.isPlaying
    /\ algorithmStore.currentStepIndex >= 1
    /\ algorithmStore.currentStepIndex < Len(algorithmStore.steps) - 1
    /\ algorithmStore.nodeStates # algorithmStore.steps[1].nodeStates
    /\ algorithmStore.edgeStates # <<>>

\* the graph stores one reaches from the store by one edit that changes the graph
EditedStores(st) ==
    {addNode(st)}
    \cup {removeNode(st, n) : n \in Elements(st.graph.nodes)}
    \cup {addEdge(st, p[1], p[2]) :
             p \in {q \in Elements(st.graph.nodes) \X Elements(st.graph.nodes) : q[1] # q[2]}}
    \cup {removeEdge(st, e.id) : e \in Elements(st.graph.edges)}
    \cup {reverseEdgeDirection(st, e.id) : e \in Elements(st.graph.edges)}
    \cup {setGraphDirected(st, d) : d \in BOOLEAN}

\* C35: in the graph store, after an edit followed by undo and then redo the
\* graph is the graph as it was immediately after the edit.
C35_RedoRestoresEdit ==
    \A edited \in EditedStores(graphStore) :
        redo(undo(edited)).graph = edited.graph

\* no two distinct edges that getEdgeBetween takes for the same connection
NoDuplicateEdges(g) ==
    \A i, j \in 1 .. Len(g.edges) :
        i # j =>
            /\ ~(g.edges[i].source = g.edges[j].source /\ g.edges[i].target = g.edges[j].target)
            /\ g.directed \/ ~(g.edges[i].source = g.edges[j].target
                               /\ g.edges[i].target = g.edges[j].source)

\* C37: in the graph store, from an empty graph and after any sequence of
\* addNode, addEdge, removeEdge, removeNode, reverseEdgeDirection,
\* setGraphDirected, undo and redo, the graph holds no two distinct edges
\* with the same source and target, nor, when it is undirected, with the
\* same unordered pair of ends.
C37_NoDuplicateEdges == NoDuplicateEdges(graphStore.graph)

\* C36: in the graph store, after any sequence of edits, undo and redo the
\* history holds at most MAX_HISTORY (20) graphs and historyIndex lies
\* between -1 and the length of the history minus one.
C36_HistoryBounded ==
    /\ Len(graphStore.history) <= MAX_HISTORY
    /\ graphStore.historyIndex >= -1
    /\ graphStore.historyIndex <= Len(graphStore.history) - 1

\* a full history whose first entry is no longer the initial graph: the
\* oldest entry has been dropped, and the index is at the top
C36_Witness ==
    /\ Len(graphStore.history) = MAX_HISTORY
    /\ graphStore.historyIndex = MAX_HISTORY - 1
    /\ graphStore.history[1].directed

\* C38: in every step emitted by any executor, metrics.nodesVisited is at
\* most the number of nodes of the graph.
C38_NodesVisitedAtMostNodes ==
    \A k \in 1 .. Len(steps) : steps[k].metrics.nodesVisited <= graph.n

\* the steps in which executePrim adds the node to the tree
PrimAdditions(node) ==
    {k \in 1 .. Len(steps) : steps[k].currentOperation = <<"Add", node>>}

\* C39: in executePrim the priority queue never holds two entries for the
\* same node and never an entry for a node that is already in the tree (the
\* skip at dequeue has nothing to fire on), no node is added to the tree
\* twice, and when the run ends every node of the graph has been added once.
C39_PrimQueueHoldsEachNodeOnce ==
    /\ (alg = "prim" /\ pc \in {"loop", "neighbors"}) =>
           /\ \A i, j \in 1 .. Len(loc.pq) : i # j => loc.pq[i].value # loc.pq[j].value
           /\ \A i \in 1 .. Len(loc.pq) : loc.pq[i].value \notin loc.inMST
           /\ \A v \in NodeIds(graph) : Cardinality(PrimAdditions(v)) <= 1
    /\ (alg = "prim" /\ pc = "done" /\ ~PrimNoStart(params)) =>
           /\ loc.inMST = NodeIds(graph)
           /\ \A v \in NodeIds(graph) : Cardinality(PrimAdditions(v)) = 1

\* a finished run on three nodes in which the key of one node was lowered
\* twice, the second time while its entry had a finite priority
C39_Witness ==
    /\ alg = "prim"
    /\ pc = "done"
    /\ graph.n = 3
    /\ \E v \in NodeIds(graph) :
           Cardinality({k \in 1 .. Len(steps) : steps[k].currentOperation = <<"Update", v>>}) = 2

====
